---- MODULE Spec2Model ----
(***************************************************************************)
(* Phase-based response generation engine of the RAG chatbot               *)
(* (backend/ai_generator.py, class AIGenerator) and its tools              *)
(* (backend/search_tools.py: CourseSearchTool, CourseOutlineTool,          *)
(* ToolManager).                                                           *)
(*                                                                         *)
(* One call of generate_response is a strict sequence of blocking external *)
(* calls: client.messages.create (the LLM) and tool_manager.execute_tool.  *)
(* Every external call is one step of the model; the Python code that runs *)
(* between two external calls is part of the step that precedes it.        *)
(*                                                                         *)
(* Spec      the engine alone, with stand-in tool managers                 *)
(* SpecTools the ToolManager and its tools, called directly                *)
(* SpecRag   queries served one after another: engine, ToolManager, and    *)
(*           the caller that collects and resets the citations             *)
(* SpecConc  two queries at the same time on one ToolManager               *)
(* SpecOutline the outline lookup, called directly on a backend that lists *)
(*           any courses and whose operations may fail                     *)
(***************************************************************************)
EXTENDS Integers, Sequences, FiniteSets, TLC

VARIABLES
    pc,                   \* position of the running generate_response call
    query,                \* argument query
    conversation_history, \* argument conversation_history (None or text)
    tools,                \* argument tools (<<>> stands for None and for [])
    tool_manager,         \* argument tool_manager (None or a manager object)
    max_phases,           \* argument max_phases
    phase,                \* which phase function is on the stack
    api_params,           \* local api_params of the phase function
    initial_response,     \* _handle_tool_execution: the reply with tool requests
    idx,                  \* _handle_tool_execution: next content block to visit
    messages,             \* _handle_tool_execution: local messages
    tool_results,         \* _handle_tool_execution: local tool_results
    investigation_result, \* local of generate_response
    synthesis_result,     \* local of generate_response
    calls,                \* external calls made so far, in order, with outcome
    answer,               \* value returned by generate_response
    raised,               \* exception that left generate_response
    client,               \* AIGenerator.client: which LLM stand-in is used
    store,                \* the tools' vector store: which stand-in is used,
                          \* or the courses it lists (SpecOutline)
    registry,             \* ToolManager.tools, in insertion order
    last_sources,         \* last_sources of every CourseSearchTool instance
    op,                   \* the last operation called on the ToolManager
                          \* or on a tool
    callers               \* the queries served through the ToolManager

\* the variables of one generate_response call
engineVars == <<pc, query, conversation_history, tools, tool_manager, max_phases,
                phase, api_params, initial_response, idx, messages, tool_results,
                investigation_result, synthesis_result, calls, answer, raised>>

\* the variables outside the generate_response call
outerVars == <<client, store, registry, last_sources, op, callers>>

vars == <<engineVars, outerVars>>

(***************************************************************************)
(* Values                                                                  *)
(***************************************************************************)
\* Python None, for the optional text and object values of the model
None == "<None>"

\* Outcome of a Python expression or block: a value, or a raised exception
Return(v) == [kind |-> "return", val |-> v]
Raise(e) == [kind |-> "raise", val |-> e]

\* {**a, **b}: the keys of b override those of a
Merge(a, b) == b @@ a

\* d.get(k) used as a condition, for a flag and for a text value
TruthyFlag(d, k) == IF k \in DOMAIN d THEN d[k] ELSE FALSE
TruthyText(d, k) == IF k \in DOMAIN d THEN d[k] # "" /\ d[k] # None ELSE FALSE

(***************************************************************************)
(* Bounds and inputs                                                       *)
(***************************************************************************)
MaxBlocks == 2      \* longest content list of a reply that requests tools
MaxPhasesArg == 2   \* largest max_phases argument tried

Queries == {"What is MCP?"}
Histories == {None, "User: hi"}
ToolLists == {<<>>, <<"search_course_content", "get_course_outline">>}
ToolManagers == {None, "tool_manager"}

Texts == {"", "Answer A", "Answer B"}   \* texts of a reply without tool request
Preamble == "Let me search"             \* text block next to a tool request
ToolNames == {"search_course_content"}
ToolOutputs == {"Search results"}
LLMErrors == {"API connection failed"}
ToolErrors == {"Tool execution failed"}

\* the errors Python raises for response.content[0].text
IndexErrorMsg == "list index out of range"
AttributeErrorMsg == "'ToolUseBlock' object has no attribute 'text'"

TextBlock(t) == [type |-> "text", text |-> t]
ToolUseBlock(n, i) == [type |-> "tool_use", name |-> n, id |-> i,
                       input |-> [query |-> "MCP"]]

\* the i-th block of a reply that requests tools; call ids are unique
BlockChoices(i) ==
    {TextBlock(Preamble)}
        \cup {ToolUseBlock(n, "toolu_" \o ToString(i)) : n \in ToolNames}

ToolUseContents ==
    UNION {{c \in [1..n -> UNION {BlockChoices(i) : i \in 1..n}] :
                \A i \in 1..n : c[i] \in BlockChoices(i)} : n \in 1..MaxBlocks}

\* what client.messages.create can return
Replies ==
    {[stop_reason |-> "end_turn", content |-> <<TextBlock(t)>>] : t \in Texts}
        \cup {[stop_reason |-> "tool_use", content |-> c] : c \in ToolUseContents}

LLMOutcomes == {Return(r) : r \in Replies} \cup {Raise(e) : e \in LLMErrors}

\* the replies of the scripted client: a direct answer, one search, an
\* unknown tool followed by a search, two searches, one outline lookup
ScriptedContents ==
    {<<ToolUseBlock("search_course_content", "toolu_1")>>,
     <<ToolUseBlock("unknown_tool", "toolu_1"),
       ToolUseBlock("search_course_content", "toolu_2")>>,
     <<ToolUseBlock("search_course_content", "toolu_1"),
       ToolUseBlock("search_course_content", "toolu_2")>>,
     <<[type |-> "tool_use", name |-> "get_course_outline", id |-> "toolu_1",
        input |-> [course_name |-> "MCP"]]>>}
ScriptedOutcomes ==
    {Return([stop_reason |-> "end_turn", content |-> <<TextBlock("Answer A")>>])}
        \cup {Return([stop_reason |-> "tool_use", content |-> c]) :
                    c \in ScriptedContents}
        \cup {Raise(e) : e \in LLMErrors}

\* the clients: "any" may answer a call with every outcome, "scripted" with
\* the scripted ones
ClientOutcomes(c) == IF c = "scripted" THEN ScriptedOutcomes ELSE LLMOutcomes
ToolOutcomes == {Return(s) : s \in ToolOutputs} \cup {Raise(e) : e \in ToolErrors}

(***************************************************************************)
(* AIGenerator: class constants                                            *)
(***************************************************************************)
\* the literal at ai_generator.py:8-32, abbreviated
BASE_SYSTEM_PROMPT == "You are an educational AI assistant [...]"

InvestigateMaxTokens == 600
SynthesizeMaxTokens == 800
BaseMaxTokens == 800

\* the system_suffix literals are abbreviated to their phase banner
PHASE_CONFIGS ==
    [investigate |-> [system_suffix |-> "\n\n**Current Phase: INVESTIGATION**",
                      max_tokens |-> InvestigateMaxTokens],
     synthesize |-> [system_suffix |-> "\n\n**Current Phase: SYNTHESIS**",
                     max_tokens |-> SynthesizeMaxTokens]]

base_params == [model |-> "claude", temperature |-> 0, max_tokens |-> BaseMaxTokens]

(***************************************************************************)
(* AIGenerator: helpers without external calls                             *)
(***************************************************************************)
\* investigation_result is passed only by the synthesis phase; the
\* investigation phase passes NoResult for the default None
NoResult == [phase |-> None]

\* variant: the investigation results are left out
BuildPhaseSystemContent_NoResults(phase_name, history, inv_result) ==
    LET s0 == BASE_SYSTEM_PROMPT \o PHASE_CONFIGS[phase_name].system_suffix
    IN  IF history # None /\ history # ""
        THEN s0 \o "\n\nPrevious conversation:\n" \o history
        ELSE s0

_build_phase_system_content(phase_name, history, inv_result) ==
    LET s0 == BASE_SYSTEM_PROMPT \o PHASE_CONFIGS[phase_name].system_suffix
        s1 == IF history # None /\ history # ""
              THEN s0 \o "\n\nPrevious conversation:\n" \o history
              ELSE s0
    IN  IF /\ phase_name = "synthesize"
           /\ TruthyFlag(inv_result, "success")
           /\ TruthyText(inv_result, "response")
        THEN s1 \o "\n\n**Investigation Results:**\n" \o inv_result.response
        ELSE s1

_build_synthesis_query(original_query, inv_result) ==
    IF TruthyFlag(inv_result, "success") /\ TruthyText(inv_result, "response")
    THEN "Original question: " \o original_query
            \o "\n\nBased on the investigation, please provide a comprehensive answer."
    ELSE original_query

\* variant: the used_tools test is missing
ShouldTerminate_OnlyOnFailure(inv_result) ==
    ~TruthyFlag(inv_result, "success")

_should_terminate_after_investigation(inv_result) ==
    IF ~TruthyFlag(inv_result, "success") THEN TRUE
    ELSE IF ~TruthyFlag(inv_result, "used_tools") THEN TRUE
    ELSE FALSE

\* variant: the result is read under a key no phase result has
ExtractFinalResponse_WrongKey(phase_result) ==
    IF "text" \in DOMAIN phase_result
    THEN phase_result.text
    ELSE "Unable to generate response"

_extract_final_response(phase_result) ==
    IF "response" \in DOMAIN phase_result
    THEN phase_result.response
    ELSE "Unable to generate response"

\* response.content[0].text
ContentText(content) ==
    IF Len(content) = 0 THEN Raise(IndexErrorMsg)
    ELSE IF content[1].type # "text" THEN Raise(AttributeErrorMsg)
    ELSE Return(content[1].text)

\* variant: the stop reason is compared with a value the client never sends
WantsToolExecution_WrongStopReason(response, tm) ==
    response.stop_reason = "tool_calls" /\ tm # None

\* variant: the tool manager is not tested
WantsToolExecution_IgnoresManager(response, tm) ==
    response.stop_reason = "tool_use"

\* response.stop_reason == "tool_use" and tool_manager
WantsToolExecution(response, tm) ==
    response.stop_reason = "tool_use" /\ tm # None

\* variant: tools and tool_choice are attached whatever the tool list
PhaseParams_AlwaysTools(phase_name, msg, system_content, tool_list) ==
    Merge(Merge(base_params,
                [messages |-> <<[role |-> "user", content |-> msg]>>,
                 system |-> system_content,
                 max_tokens |-> PHASE_CONFIGS[phase_name].max_tokens]),
          [tools |-> tool_list, tool_choice |-> [type |-> "auto"]])

\* api_params of a phase: base_params overridden, tools attached if any
PhaseParams(phase_name, msg, system_content, tool_list) ==
    LET p == Merge(base_params,
                   [messages |-> <<[role |-> "user", content |-> msg]>>,
                    system |-> system_content,
                    max_tokens |-> PHASE_CONFIGS[phase_name].max_tokens])
    IN  IF Len(tool_list) > 0
        THEN Merge(p, [tools |-> tool_list, tool_choice |-> [type |-> "auto"]])
        ELSE p

\* variant: a direct reply is reported as tool use
DirectResult_UsedTools(phase_name, response) ==
    LET t == ContentText(response.content)
    IN  IF t.kind = "raise" THEN t
        ELSE Return([response |-> t.val, used_tools |-> TRUE,
                     phase |-> phase_name, success |-> TRUE])

\* the try-body result of a phase whose reply is answered directly
DirectResult(phase_name, response) ==
    LET t == ContentText(response.content)
    IN  IF t.kind = "raise" THEN t
        ELSE Return([response |-> t.val, used_tools |-> FALSE,
                     phase |-> phase_name, success |-> TRUE])

\* variant: a tool round is reported as a direct answer
ToolRoundResult_ReportsNoTools(phase_name, final_text) ==
    Return([response |-> final_text, used_tools |-> FALSE,
            phase |-> phase_name, success |-> TRUE])

\* the try-body result of a phase after its tool round
ToolRoundResult(phase_name, final_text) ==
    Return([response |-> final_text, used_tools |-> TRUE,
            phase |-> phase_name, success |-> TRUE])

\* variant: the except clause lets the exception through
ExecutePhaseExcept_Reraise(phase_name, e) ==
    Raise(e)

\* variant: the error text leaves out the exception's message
ExecutePhaseExcept_NoMessage(phase_name, e) ==
    Return([response |-> "Error in " \o phase_name \o " phase",
            used_tools |-> FALSE, phase |-> phase_name,
            success |-> FALSE, error |-> e])

\* except Exception in _execute_phase
ExecutePhaseExcept(phase_name, e) ==
    Return([response |-> "Error in " \o phase_name \o " phase: " \o e,
            used_tools |-> FALSE, phase |-> phase_name,
            success |-> FALSE, error |-> e])

\* variant: no fallback to the investigation text
SynthesisExcept_NoFallback(inv_result, e) ==
    Return([response |-> "Unable to complete synthesis: " \o e,
            used_tools |-> FALSE, phase |-> "synthesize",
            success |-> FALSE, error |-> e])

\* except Exception in _execute_synthesis_phase
SynthesisExcept(inv_result, e) ==
    IF TruthyFlag(inv_result, "success") /\ TruthyText(inv_result, "response")
    THEN Return([response |-> inv_result.response,
                 used_tools |-> TruthyFlag(inv_result, "used_tools"),
                 phase |-> "synthesis_fallback", success |-> TRUE,
                 fallback_reason |-> "Synthesis failed: " \o e])
    ELSE Return([response |-> "Unable to complete synthesis: " \o e,
                 used_tools |-> FALSE, phase |-> "synthesize",
                 success |-> FALSE, error |-> e])

\* a phase function as a whole: its try body guarded by its except clause
PhaseOutcome(phase_name, body, inv_result) ==
    IF body.kind = "return" THEN body
    ELSE IF phase_name = "investigate" THEN ExecutePhaseExcept(phase_name, body.val)
    ELSE SynthesisExcept(inv_result, body.val)

(***************************************************************************)
(* Retrieval backend as the tools see it (vector_store.VectorStore)        *)
(***************************************************************************)
MaxResults == 2     \* most documents in one result set

CourseTitle == "MCP Course"
LessonLink == "https://example.com/lesson"
SearchErrors == {"Search error: connection refused"}

\* chunk metadata: of lesson 0, and of a chunk without lesson number
Metas == {[course_title |-> CourseTitle, lesson_number |-> 0],
          [course_title |-> CourseTitle]}
Document(i) == "chunk " \o ToString(i)

\* SearchResults(documents, metadata, error): documents and metadata are
\* aligned, an error comes with no documents
SearchResults(docs, metas, err) ==
    [documents |-> docs, metadata |-> metas, error |-> err]
is_empty(results) == Len(results.documents) = 0

\* an error comes without documents, or with the documents found so far
ErrorResults ==
    {SearchResults(<<>>, <<>>, e) : e \in SearchErrors}
        \cup {SearchResults(<<Document(1)>>, <<m>>, e) :
                    e \in SearchErrors,
                    m \in {x \in Metas : "lesson_number" \in DOMAIN x}}
FoundResults ==
    UNION {{SearchResults([i \in 1..n |-> Document(i)], m, None) :
                m \in [1..n -> Metas]} : n \in 0..MaxResults}
AllSearchResults == ErrorResults \cup FoundResults

\* what get_lesson_link may return
LinkAnswers == {None, LessonLink}

\* arguments the model may pass to search_course_content
SearchArgs ==
    {[query |-> "MCP"],
     [query |-> "MCP", course_name |-> "MCP"],
     [query |-> "MCP", lesson_number |-> 0],
     [query |-> "MCP", lesson_number |-> 3],
     [query |-> "MCP", course_name |-> "MCP", lesson_number |-> 0],
     [query |-> "MCP", course_name |-> "MCP", lesson_number |-> 3]}

(***************************************************************************)
(* search_tools.py: CourseSearchTool                                       *)
(***************************************************************************)
\* "sep".join(seq)
RECURSIVE Join(_, _)
Join(seq, sep) ==
    IF Len(seq) = 0 THEN ""
    ELSE IF Len(seq) = 1 THEN seq[1]
    ELSE seq[1] \o sep \o Join(Tail(seq), sep)

\* meta.get('course_title', 'unknown'), meta.get('lesson_number') is not None
MetaTitle(meta) ==
    IF "course_title" \in DOMAIN meta THEN meta.course_title ELSE "unknown"
HasLesson(meta) == "lesson_number" \in DOMAIN meta

\* get_lesson_link is asked only for a known title with a lesson number
LooksUpLink(meta) == HasLesson(meta) /\ MetaTitle(meta) # "unknown"

\* the context header of one result; link is the value of lesson_link
Header(meta, link) ==
    IF link # None /\ link # ""
    THEN "[[" \o MetaTitle(meta) \o " - Lesson " \o ToString(meta.lesson_number)
            \o "]](" \o link \o ")"
    ELSE "[" \o MetaTitle(meta)
            \o (IF HasLesson(meta)
                THEN " - Lesson " \o ToString(meta.lesson_number) ELSE "")
            \o "]"

\* variant: the citation never takes the link form
Source_AlwaysPlain(meta, link) ==
    MetaTitle(meta)
        \o (IF HasLesson(meta)
            THEN " - Lesson " \o ToString(meta.lesson_number) ELSE "")

\* the citation of one result
Source(meta, link) ==
    IF link # None /\ link # ""
    THEN "[" \o MetaTitle(meta) \o " - Lesson " \o ToString(meta.lesson_number)
            \o "](" \o link \o ")"
    ELSE MetaTitle(meta)
            \o (IF HasLesson(meta)
                THEN " - Lesson " \o ToString(meta.lesson_number) ELSE "")

\* _format_results; links[i] is what get_lesson_link answers for result i.
\* Gives the returned text, the value stored in last_sources and the
\* get_lesson_link calls made, in order.
_format_results(results, links) ==
    LET n == IF Len(results.documents) <= Len(results.metadata)
             THEN Len(results.documents) ELSE Len(results.metadata)
        link(i) == IF LooksUpLink(results.metadata[i]) THEN links[i] ELSE None
        formatted == [i \in 1..n |->
                        Header(results.metadata[i], link(i))
                            \o "\n" \o results.documents[i]]
        sources == [i \in 1..n |-> Source(results.metadata[i], link(i))]
        Asked(m) == LooksUpLink(m)
    IN  [text |-> Join(formatted, "\n\n"),
         sources |-> sources,
         lookups |-> SelectSeq([i \in 1..n |-> results.metadata[i]], Asked)]

\* variant: a search that fails or finds nothing clears the citations
CourseSearchTool_execute_ClearsOnFailure(args, results, links, old) ==
    IF results.error # None /\ results.error # ""
    THEN [result |-> Return(results.error), sources |-> <<>>, lookups |-> <<>>]
    ELSE IF is_empty(results)
    THEN LET in_course ==
                IF "course_name" \in DOMAIN args /\ args.course_name # ""
                THEN " in course '" \o args.course_name \o "'" ELSE ""
             in_lesson ==
                IF "lesson_number" \in DOMAIN args /\ args.lesson_number # 0
                THEN " in lesson " \o ToString(args.lesson_number) ELSE ""
         IN  [result |-> Return("No relevant content found"
                                    \o in_course \o in_lesson \o "."),
              sources |-> <<>>, lookups |-> <<>>]
    ELSE LET f == _format_results(results, links)
         IN  [result |-> Return(f.text), sources |-> f.sources,
              lookups |-> f.lookups]

\* variant: the citations of a successful search are added to those recorded
CourseSearchTool_execute_Appends(args, results, links, old) ==
    IF results.error # None /\ results.error # ""
    THEN [result |-> Return(results.error), sources |-> old, lookups |-> <<>>]
    ELSE IF is_empty(results)
    THEN LET in_course ==
                IF "course_name" \in DOMAIN args /\ args.course_name # ""
                THEN " in course '" \o args.course_name \o "'" ELSE ""
             in_lesson ==
                IF "lesson_number" \in DOMAIN args /\ args.lesson_number # 0
                THEN " in lesson " \o ToString(args.lesson_number) ELSE ""
         IN  [result |-> Return("No relevant content found"
                                    \o in_course \o in_lesson \o "."),
              sources |-> old, lookups |-> <<>>]
    ELSE LET f == _format_results(results, links)
         IN  [result |-> Return(f.text), sources |-> old \o f.sources,
              lookups |-> f.lookups]

\* variant: the empty-result step comes before the error step
CourseSearchTool_execute_EmptyFirst(args, results, links, old) ==
    IF is_empty(results)
    THEN LET in_course ==
                IF "course_name" \in DOMAIN args /\ args.course_name # ""
                THEN " in course '" \o args.course_name \o "'" ELSE ""
             in_lesson ==
                IF "lesson_number" \in DOMAIN args /\ args.lesson_number # 0
                THEN " in lesson " \o ToString(args.lesson_number) ELSE ""
         IN  [result |-> Return("No relevant content found"
                                    \o in_course \o in_lesson \o "."),
              sources |-> old, lookups |-> <<>>]
    ELSE IF results.error # None /\ results.error # ""
    THEN [result |-> Return(results.error), sources |-> old, lookups |-> <<>>]
    ELSE LET f == _format_results(results, links)
         IN  [result |-> Return(f.text), sources |-> f.sources,
              lookups |-> f.lookups]

\* CourseSearchTool.execute with the backend answers results and links;
\* old is last_sources of the tool before the call
CourseSearchTool_execute(args, results, links, old) ==
    IF results.error # None /\ results.error # ""
    THEN [result |-> Return(results.error), sources |-> old, lookups |-> <<>>]
    ELSE IF is_empty(results)
    THEN LET in_course ==
                IF "course_name" \in DOMAIN args /\ args.course_name # ""
                THEN " in course '" \o args.course_name \o "'" ELSE ""
             in_lesson ==
                IF "lesson_number" \in DOMAIN args /\ args.lesson_number # 0
                THEN " in lesson " \o ToString(args.lesson_number) ELSE ""
         IN  [result |-> Return("No relevant content found"
                                    \o in_course \o in_lesson \o "."),
              sources |-> old, lookups |-> <<>>]
    ELSE LET f == _format_results(results, links)
         IN  [result |-> Return(f.text), sources |-> f.sources,
              lookups |-> f.lookups]

(***************************************************************************)
(* search_tools.py: tools and ToolManager                                  *)
(***************************************************************************)
\* tool instances
SearchTool == [class |-> "CourseSearchTool", id |-> 1]
OutlineTool == [class |-> "CourseOutlineTool", id |-> 1]
\* a second outline tool, and two implementations of the Tool interface
\* whose definition has no usable name: the key is missing, or it is empty
OutlineTool2 == [class |-> "CourseOutlineTool", id |-> 2]
NoNameTool == [class |-> "NoNameTool", id |-> 1]
EmptyNameTool == [class |-> "EmptyNameTool", id |-> 1]
ToolInstances == {SearchTool, OutlineTool, OutlineTool2, NoNameTool,
                  EmptyNameTool}
SearchToolInstances == {t \in ToolInstances : t.class = "CourseSearchTool"}

\* get_tool_definition, reduced to the name and the required arguments
get_tool_definition(tool) ==
    CASE tool.class = "CourseSearchTool" ->
            [name |-> "search_course_content", required |-> <<"query">>]
      [] tool.class = "CourseOutlineTool" ->
            [name |-> "get_course_outline", required |-> <<"course_name">>]
      [] tool.class = "NoNameTool" -> [required |-> <<>>]
      [] OTHER -> [name |-> "", required |-> <<>>]

\* hasattr(tool, 'last_sources')
HasLastSources(tool) == tool.class = "CourseSearchTool"

\* texts CourseOutlineTool.execute may return; the tool has no last_sources
OutlineOutputs == {"# MCP Course\n**Instructor:** Unknown\n\n**No lessons found**\n",
                   "No courses found in the system",
                   "No course found matching 'MCP'. Available courses: Course X"}

\* position of name in the tools dict, 0 when absent
RegistryIndex(reg, name) ==
    IF \E i \in 1..Len(reg) : reg[i].name = name
    THEN CHOOSE i \in 1..Len(reg) : reg[i].name = name
    ELSE 0

\* variant: a tool without a name is stored under the empty name
register_tool_NoCheck(reg, tool) ==
    LET tool_def == get_tool_definition(tool)
        tool_name == IF "name" \in DOMAIN tool_def THEN tool_def.name ELSE ""
        i == RegistryIndex(reg, tool_name)
        entry == [name |-> tool_name, tool |-> tool]
    IN  [result |-> Return(None),
         registry |-> IF i = 0 THEN Append(reg, entry)
                      ELSE [reg EXCEPT ![i] = entry],
         replaced |-> IF i = 0 THEN <<>> ELSE <<reg[i].tool>>]

\* variant: a name that is already registered keeps its tool
register_tool_KeepsFirst(reg, tool) ==
    LET tool_def == get_tool_definition(tool)
        has_name == "name" \in DOMAIN tool_def
                        /\ tool_def.name # None /\ tool_def.name # ""
    IN  IF ~has_name
        THEN [result |-> Raise("Tool must have a 'name' in its definition"),
              registry |-> reg, replaced |-> <<>>]
        ELSE LET i == RegistryIndex(reg, tool_def.name)
                 entry == [name |-> tool_def.name, tool |-> tool]
             IN  [result |-> Return(None),
                  registry |-> IF i = 0 THEN Append(reg, entry) ELSE reg,
                  replaced |-> IF i = 0 THEN <<>> ELSE <<reg[i].tool>>]

\* register_tool: the outcome, the tools dict after the call and the tool
\* the name was bound to before (replaced, empty when it was not bound)
register_tool(reg, tool) ==
    LET tool_def == get_tool_definition(tool)
        has_name == "name" \in DOMAIN tool_def
                        /\ tool_def.name # None /\ tool_def.name # ""
    IN  IF ~has_name
        THEN [result |-> Raise("Tool must have a 'name' in its definition"),
              registry |-> reg, replaced |-> <<>>]
        ELSE LET i == RegistryIndex(reg, tool_def.name)
                 entry == [name |-> tool_def.name, tool |-> tool]
             IN  [result |-> Return(None),
                  registry |-> IF i = 0 THEN Append(reg, entry)
                               ELSE [reg EXCEPT ![i] = entry],
                  replaced |-> IF i = 0 THEN <<>> ELSE <<reg[i].tool>>]

\* variant: the definitions in reverse dict order
get_tool_definitions_Reversed(reg) ==
    [i \in 1..Len(reg) |-> get_tool_definition(reg[Len(reg) + 1 - i].tool)]

\* get_tool_definitions: the definition of every tool, in dict order
get_tool_definitions(reg) ==
    [i \in 1..Len(reg) |-> get_tool_definition(reg[i].tool)]

\* what the backend answers during one tool execution: the result of
\* search, the answer of get_lesson_link for each result that is looked up
\* (None for the others), the text of an outline lookup
NoAnswer == [search |-> SearchResults(<<>>, <<>>, None), links |-> <<>>,
             outline |-> None]
SearchAnswers(results) ==
    {a \in {[search |-> r, links |-> l, outline |-> None] :
                r \in results,
                l \in UNION {[1..n -> LinkAnswers] : n \in 0..MaxResults}} :
        /\ Len(a.links) = Len(a.search.documents)
        /\ \A k \in 1..Len(a.links) :
            (a.search.error # None \/ ~LooksUpLink(a.search.metadata[k]))
                => a.links[k] = None}
AllSearchAnswers == SearchAnswers(AllSearchResults)
OutlineAnswers ==
    {[search |-> NoAnswer.search, links |-> <<>>, outline |-> t] :
        t \in OutlineOutputs}

\* the answers of the small store: an error, no result, one result with a
\* lesson link, two results without link
SmallStoreAnswers ==
    {a \in AllSearchAnswers :
        \/ is_empty(a.search)
        \/ /\ a.search.error = None
           /\ Len(a.search.documents) = 1
           /\ a.links = <<LessonLink>>
        \/ /\ a.search.error = None
           /\ Len(a.search.documents) = 2
           /\ a.search.metadata[1] # a.search.metadata[2]
           /\ "lesson_number" \in DOMAIN a.search.metadata[1]
           /\ a.links = <<None, None>>}

\* the stores: "any" may answer a search with every result set, "small"
\* with the answers above
StoreAnswers(st) == IF st = "small" THEN SmallStoreAnswers ELSE AllSearchAnswers

\* a search narrowed to a lesson returns chunks of that lesson only
MatchesFilter(args, results) ==
    "lesson_number" \in DOMAIN args =>
        \A k \in 1..Len(results.metadata) :
            /\ "lesson_number" \in DOMAIN results.metadata[k]
            /\ results.metadata[k].lesson_number = args.lesson_number

\* the answers possible during the execution of name with args; st is the
\* store
BackendAnswers(reg, st, name, args) ==
    LET i == RegistryIndex(reg, name)
    IN  IF i = 0 THEN {NoAnswer}
        ELSE IF reg[i].tool.class = "CourseSearchTool"
        THEN {a \in StoreAnswers(st) : MatchesFilter(args, a.search)}
        ELSE OutlineAnswers

\* variant: an unknown name raises KeyError
execute_tool_RaisesOnMiss(reg, ls, name, args, ans) ==
    LET i == RegistryIndex(reg, name)
        base == [tool_name |-> name, args |-> args, found |-> i # 0,
                 backend |-> ans, tools |-> reg,
                 reached |-> IF i = 0 THEN <<>> ELSE <<reg[i].tool>>]
    IN  IF i = 0
        THEN base @@ [result |-> Raise("'" \o name \o "'"),
                      lookups |-> <<>>, after |-> ls]
        ELSE IF reg[i].tool.class = "CourseSearchTool"
        THEN LET t == reg[i].tool
                 e == CourseSearchTool_execute(args, ans.search, ans.links, ls[t])
             IN  base @@ [result |-> e.result, lookups |-> e.lookups,
                          after |-> [ls EXCEPT ![t] = e.sources]]
        ELSE base @@ [result |-> Return(ans.outline), lookups |-> <<>>,
                      after |-> ls]

\* variant: a name that is not registered is removed from the dict, the
\* tool that ran is dropped from it
execute_tool_DropsTool(reg, ls, name, args, ans) ==
    LET i == RegistryIndex(reg, name)
        Others(e) == e.name # name
        base == [tool_name |-> name, args |-> args, found |-> i # 0,
                 backend |-> ans, tools |-> SelectSeq(reg, Others),
                 reached |-> IF i = 0 THEN <<>> ELSE <<reg[i].tool>>]
    IN  IF i = 0
        THEN base @@ [result |-> Return("Tool '" \o name \o "' not found"),
                      lookups |-> <<>>, after |-> ls]
        ELSE IF reg[i].tool.class = "CourseSearchTool"
        THEN LET t == reg[i].tool
                 e == CourseSearchTool_execute(args, ans.search, ans.links, ls[t])
             IN  base @@ [result |-> e.result, lookups |-> e.lookups,
                          after |-> [ls EXCEPT ![t] = e.sources]]
        ELSE base @@ [result |-> Return(ans.outline), lookups |-> <<>>,
                      after |-> ls]

\* execute_tool: a record of the execution with its result, the tool
\* whose execute ran (reached, empty when none), the tools dict and the
\* last_sources of all tools after it
execute_tool(reg, ls, name, args, ans) ==
    LET i == RegistryIndex(reg, name)
        base == [tool_name |-> name, args |-> args, found |-> i # 0,
                 backend |-> ans, tools |-> reg,
                 reached |-> IF i = 0 THEN <<>> ELSE <<reg[i].tool>>]
    IN  IF i = 0
        THEN base @@ [result |-> Return("Tool '" \o name \o "' not found"),
                      lookups |-> <<>>, after |-> ls]
        ELSE IF reg[i].tool.class = "CourseSearchTool"
        THEN LET t == reg[i].tool
                 e == CourseSearchTool_execute(args, ans.search, ans.links, ls[t])
             IN  base @@ [result |-> e.result, lookups |-> e.lookups,
                          after |-> [ls EXCEPT ![t] = e.sources]]
        ELSE base @@ [result |-> Return(ans.outline), lookups |-> <<>>,
                      after |-> ls]

\* get_last_sources: the first non-empty last_sources in dict order
get_last_sources(reg, ls) ==
    LET Tracks(e) == HasLastSources(e.tool) /\ Len(ls[e.tool]) > 0
        tracking == SelectSeq(reg, Tracks)
    IN  IF Len(tracking) > 0 THEN ls[tracking[1].tool] ELSE <<>>

\* variant: the citations are left as they are
reset_sources_Noop(reg, ls) == ls

\* reset_sources: last_sources of every registered tool that has one
reset_sources(reg, ls) ==
    [t \in DOMAIN ls |->
        IF \E i \in 1..Len(reg) : reg[i].tool = t THEN <<>> ELSE ls[t]]

(***************************************************************************)
(* generate_response as a sequence of steps                                *)
(***************************************************************************)
\* entries of the call log
LLMCall(phase_name, followup, params, outcome) ==
    [type |-> "llm", phase |-> phase_name, followup |-> followup,
     params |-> params, outcome |-> outcome]
ToolCall(phase_name, block, outcome) ==
    [type |-> "tool", phase |-> phase_name, name |-> block.name,
     id |-> block.id, input |-> block.input, outcome |-> outcome]

\* variant: the loop ends after the first tool_use block
RECURSIVE NextToolUse_FirstOnly(_, _)
NextToolUse_FirstOnly(content, i) ==
    IF i > Len(content) THEN Len(content) + 1
    ELSE IF /\ content[i].type = "tool_use"
            /\ \A j \in 1..(i - 1) : content[j].type # "tool_use"
         THEN i
    ELSE NextToolUse_FirstOnly(content, i + 1)

\* index of the first tool_use block of content at or after position i,
\* Len(content) + 1 when there is none
RECURSIVE NextToolUse(_, _)
NextToolUse(content, i) ==
    IF i > Len(content) THEN Len(content) + 1
    ELSE IF content[i].type = "tool_use" THEN i
    ELSE NextToolUse(content, i + 1)

\* variant: the tool results are not sent back
WithToolResults_Drops(msgs, results) == msgs

\* messages after the loop over the content blocks
WithToolResults(msgs, results) ==
    IF Len(results) > 0
    THEN Append(msgs, [role |-> "user", content |-> results])
    ELSE msgs

\* variant: the result of the synthesis phase is stored and never returned
FinishPhase_KeepsSynthesis(out) ==
    IF out.kind = "raise"
    THEN /\ pc' = "done"
         /\ raised' = out.val
         /\ UNCHANGED <<phase, api_params, investigation_result,
                        synthesis_result, answer>>
    ELSE IF phase = "investigate"
    THEN /\ investigation_result' = out.val
         /\ raised' = raised
         /\ synthesis_result' = synthesis_result
         /\ IF _should_terminate_after_investigation(out.val)
            THEN /\ answer' = _extract_final_response(out.val)
                 /\ pc' = "done"
                 /\ UNCHANGED <<phase, api_params>>
            ELSE /\ phase' = "synthesize"
                 /\ api_params' =
                        PhaseParams("synthesize",
                            _build_synthesis_query(query, out.val),
                            _build_phase_system_content("synthesize",
                                conversation_history, out.val),
                            tools)
                 /\ pc' = "create"
                 /\ answer' = answer
    ELSE /\ synthesis_result' = out.val
         /\ pc' = "synthesized"
         /\ UNCHANGED <<phase, api_params, investigation_result, raised, answer>>

\* generate_response from the return of a phase function to its next
\* external call or to its own return; out is the outcome of the phase
\* function named by phase
FinishPhase(out) ==
    IF out.kind = "raise"
    THEN /\ pc' = "done"
         /\ raised' = out.val
         /\ UNCHANGED <<phase, api_params, investigation_result,
                        synthesis_result, answer>>
    ELSE IF phase = "investigate"
    THEN /\ investigation_result' = out.val
         /\ raised' = raised
         /\ synthesis_result' = synthesis_result
         /\ IF _should_terminate_after_investigation(out.val)
            THEN /\ answer' = _extract_final_response(out.val)
                 /\ pc' = "done"
                 /\ UNCHANGED <<phase, api_params>>
            ELSE /\ phase' = "synthesize"
                 /\ api_params' =
                        PhaseParams("synthesize",
                            _build_synthesis_query(query, out.val),
                            _build_phase_system_content("synthesize",
                                conversation_history, out.val),
                            tools)
                 /\ pc' = "create"
                 /\ answer' = answer
    ELSE /\ synthesis_result' = out.val
         /\ answer' = _extract_final_response(out.val)
         /\ pc' = "done"
         /\ UNCHANGED <<phase, api_params, investigation_result, raised>>

\* the caller invokes generate_response; the engine builds the api_params
\* of the investigation phase
StartGenerate(q, h, t, tm, mp) ==
    /\ pc = "idle"
    /\ query' = q
    /\ conversation_history' = h
    /\ tools' = t
    /\ tool_manager' = tm
    /\ max_phases' = mp
    /\ phase' = "investigate"
    /\ api_params' = PhaseParams("investigate", q,
                        _build_phase_system_content("investigate", h, NoResult), t)
    /\ pc' = "create"
    /\ UNCHANGED <<initial_response, idx, messages, tool_results,
                   investigation_result, synthesis_result, calls, answer, raised>>

GenerateResponse(q, h, t, tm, mp) ==
    /\ StartGenerate(q, h, t, tm, mp)
    /\ UNCHANGED outerVars

\* the first client.messages.create of a phase and what follows it up to
\* the next external call
PhaseFirstCall(phase_name) ==
    \E o \in ClientOutcomes(client) :
        /\ calls' = Append(calls, LLMCall(phase_name, FALSE, api_params, o))
        /\ IF o.kind = "raise"
           THEN /\ FinishPhase(PhaseOutcome(phase_name, o, investigation_result))
                /\ UNCHANGED <<initial_response, idx, messages, tool_results>>
           ELSE IF WantsToolExecution(o.val, tool_manager)
           THEN \* _handle_tool_execution up to the first tool execution
                LET first == NextToolUse(o.val.content, 1)
                    msgs == Append(api_params.messages,
                                [role |-> "assistant", content |-> o.val.content])
                IN  /\ initial_response' = o.val
                    /\ tool_results' = <<>>
                    /\ idx' = first
                    /\ IF first <= Len(o.val.content)
                       THEN messages' = msgs /\ pc' = "execute_tool"
                       ELSE messages' = WithToolResults(msgs, <<>>)
                            /\ pc' = "final_create"
                    /\ UNCHANGED <<phase, api_params, investigation_result,
                                   synthesis_result, answer, raised>>
           ELSE /\ FinishPhase(PhaseOutcome(phase_name,
                        DirectResult(phase_name, o.val), investigation_result))
                /\ UNCHANGED <<initial_response, idx, messages, tool_results>>

ExecutePhase ==
    /\ pc = "create"
    /\ phase = "investigate"
    /\ PhaseFirstCall("investigate")
    /\ UNCHANGED <<query, conversation_history, tools, tool_manager, max_phases>>
    /\ UNCHANGED outerVars

ExecuteSynthesisPhase ==
    /\ pc = "create"
    /\ phase = "synthesize"
    /\ PhaseFirstCall("synthesize")
    /\ UNCHANGED <<query, conversation_history, tools, tool_manager, max_phases>>
    /\ UNCHANGED outerVars

\* the value of tool_manager that is the ToolManager of search_tools.py;
\* any other manager is a stand-in whose execute_tool may do anything
Registry == "ToolManager"

\* _handle_tool_execution from the return of execute_tool for block, with
\* outcome o, to the next external call; entry is the call's log entry
ToolStep(entry, block, o) ==
    /\ calls' = Append(calls, entry)
    /\ IF o.kind = "raise"
       THEN /\ FinishPhase(PhaseOutcome(phase, o, investigation_result))
            /\ UNCHANGED <<idx, messages, tool_results>>
       ELSE LET content == initial_response.content
                results == Append(tool_results,
                            [type |-> "tool_result",
                             tool_use_id |-> block.id,
                             content |-> o.val])
                next == NextToolUse(content, idx + 1)
            IN  /\ tool_results' = results
                /\ idx' = next
                /\ IF next <= Len(content)
                   THEN messages' = messages /\ pc' = "execute_tool"
                   ELSE messages' = WithToolResults(messages, results)
                        /\ pc' = "final_create"
                /\ UNCHANGED <<phase, api_params, investigation_result,
                               synthesis_result, answer, raised>>
    /\ UNCHANGED <<query, conversation_history, tools, tool_manager, max_phases,
                   initial_response>>

\* _handle_tool_execution: one tool_manager.execute_tool call of the loop,
\* on a stand-in manager
ExecuteTool ==
    /\ pc = "execute_tool"
    /\ tool_manager # Registry
    /\ LET block == initial_response.content[idx]
       IN  \E o \in ToolOutcomes : ToolStep(ToolCall(phase, block, o), block, o)
    /\ UNCHANGED outerVars

\* the same call on the ToolManager: the named tool runs against the
\* backend and may replace its last_sources
ExecuteRegistryTool ==
    /\ pc = "execute_tool"
    /\ tool_manager = Registry
    /\ LET block == initial_response.content[idx]
       IN  \E ans \in BackendAnswers(registry, store, block.name, block.input) :
            LET ex == execute_tool(registry, last_sources, block.name,
                                   block.input, ans)
            IN  /\ ToolStep(ToolCall(phase, block, ex.result) @@ [exec |-> ex],
                            block, ex.result)
                /\ last_sources' = ex.after
                /\ registry' = ex.tools
                /\ op' = [name |-> "execute_tool", exec |-> ex]
    /\ UNCHANGED <<client, store, callers>>

\* variant: the reply to the follow-up call is inspected for tool requests
\* and starts another tool round
FinalCreate_Inspects ==
    /\ pc = "final_create"
    /\ LET final_params == Merge(base_params,
                                [messages |-> messages,
                                 system |-> api_params.system])
       IN  \E o \in ClientOutcomes(client) :
            /\ calls' = Append(calls, LLMCall(phase, TRUE, final_params, o))
            /\ IF o.kind = "return" /\ WantsToolExecution(o.val, tool_manager)
                    /\ NextToolUse(o.val.content, 1) <= Len(o.val.content)
               THEN /\ initial_response' = o.val
                    /\ tool_results' = <<>>
                    /\ idx' = NextToolUse(o.val.content, 1)
                    /\ messages' = Append(messages,
                            [role |-> "assistant", content |-> o.val.content])
                    /\ pc' = "execute_tool"
                    /\ UNCHANGED <<phase, api_params, investigation_result,
                                   synthesis_result, answer, raised>>
               ELSE /\ LET t == IF o.kind = "raise" THEN o
                                ELSE ContentText(o.val.content)
                           body == IF t.kind = "raise" THEN t
                                   ELSE ToolRoundResult(phase, t.val)
                       IN  FinishPhase(PhaseOutcome(phase, body, investigation_result))
                    /\ UNCHANGED <<initial_response, idx, messages, tool_results>>
    /\ UNCHANGED <<query, conversation_history, tools, tool_manager, max_phases>>
    /\ UNCHANGED outerVars

\* _handle_tool_execution: the follow-up client.messages.create
FinalCreate ==
    /\ pc = "final_create"
    /\ LET final_params == Merge(base_params,
                                [messages |-> messages,
                                 system |-> api_params.system])
       IN  \E o \in ClientOutcomes(client) :
            /\ calls' = Append(calls, LLMCall(phase, TRUE, final_params, o))
            /\ LET t == IF o.kind = "raise" THEN o ELSE ContentText(o.val.content)
                   body == IF t.kind = "raise" THEN t
                           ELSE ToolRoundResult(phase, t.val)
               IN  FinishPhase(PhaseOutcome(phase, body, investigation_result))
    /\ UNCHANGED <<query, conversation_history, tools, tool_manager, max_phases,
                   initial_response, idx, messages, tool_results>>
    /\ UNCHANGED outerVars

\* no generate_response call is running
EngineIdle ==
    /\ pc = "idle"
    /\ query = None
    /\ conversation_history = None
    /\ tools = <<>>
    /\ tool_manager = None
    /\ max_phases = 2
    /\ phase = None
    /\ api_params = base_params
    /\ initial_response = [stop_reason |-> None, content |-> <<>>]
    /\ idx = 0
    /\ messages = <<>>
    /\ tool_results = <<>>
    /\ investigation_result = NoResult
    /\ synthesis_result = NoResult
    /\ calls = <<>>
    /\ answer = None
    /\ raised = None

\* a ToolManager without tools; no tool has recorded a citation
RegistryEmpty ==
    /\ registry = <<>>
    /\ last_sources = [t \in SearchToolInstances |-> <<>>]
    /\ op = [name |-> "init"]

\* the engine on its own: any LLM outcome, stand-in tool managers
Init ==
    /\ EngineIdle
    /\ RegistryEmpty
    /\ client = "any"
    /\ store = "any"
    /\ callers = <<>>

Next ==
    \/ \E q \in Queries, h \in Histories, t \in ToolLists, tm \in ToolManagers,
          mp \in 1..MaxPhasesArg : GenerateResponse(q, h, t, tm, mp)
    \/ ExecutePhase
    \/ ExecuteSynthesisPhase
    \/ ExecuteTool
    \/ FinalCreate

Spec == Init /\ [][Next]_vars

\* every external call that is awaited ends: client.messages.create and
\* tool_manager.execute_tool return or raise
CallsEnd ==
    /\ WF_vars(ExecutePhase)
    /\ WF_vars(ExecuteSynthesisPhase)
    /\ WF_vars(ExecuteTool)
    /\ WF_vars(FinalCreate)

\* the steps of a query with the default max_phases and no conversation
\* history; neither changes which calls are made
NextLive ==
    \/ \E q \in Queries, t \in ToolLists, tm \in ToolManagers :
            GenerateResponse(q, None, t, tm, 2)
    \/ ExecutePhase
    \/ ExecuteSynthesisPhase
    \/ ExecuteTool
    \/ FinalCreate

SpecLive == Init /\ [][NextLive]_vars /\ CallsEnd

(***************************************************************************)
(* The ToolManager called directly                                         *)
(***************************************************************************)
ToolCallNames == {"search_course_content", "get_course_outline", "unknown_tool"}
OutlineArgs == {[course_name |-> "MCP"]}
ArgsFor(name) == IF name = "get_course_outline" THEN OutlineArgs ELSE SearchArgs

RegisterTool(t) ==
    /\ pc = "idle"
    /\ LET r == register_tool(registry, t)
       IN  /\ registry' = r.registry
           /\ op' = [name |-> "register_tool", tool |-> t,
                     result |-> r.result, replaced |-> r.replaced]
    /\ UNCHANGED <<engineVars, client, store, last_sources, callers>>

ExecuteToolCall(name, args) ==
    /\ pc = "idle"
    /\ \E ans \in BackendAnswers(registry, store, name, args) :
        LET ex == execute_tool(registry, last_sources, name, args, ans)
        IN  /\ last_sources' = ex.after
            /\ registry' = ex.tools
            /\ op' = [name |-> "execute_tool", exec |-> ex,
                      result |-> ex.result]
    /\ UNCHANGED <<engineVars, client, store, callers>>

GetToolDefinitions ==
    /\ pc = "idle"
    /\ op' = [name |-> "get_tool_definitions",
              result |-> Return(get_tool_definitions(registry))]
    /\ UNCHANGED <<engineVars, client, store, registry, last_sources, callers>>

GetLastSources ==
    /\ pc = "idle"
    /\ op' = [name |-> "get_last_sources",
              result |-> Return(get_last_sources(registry, last_sources))]
    /\ UNCHANGED <<engineVars, client, store, registry, last_sources, callers>>

ResetSources ==
    /\ pc = "idle"
    /\ last_sources' = reset_sources(registry, last_sources)
    /\ op' = [name |-> "reset_sources", result |-> Return(None)]
    /\ UNCHANGED <<engineVars, client, store, registry, callers>>

NextTools ==
    \/ \E t \in ToolInstances : RegisterTool(t)
    \/ \E name \in ToolCallNames : \E args \in ArgsFor(name) :
            ExecuteToolCall(name, args)
    \/ GetToolDefinitions
    \/ GetLastSources
    \/ ResetSources

SpecTools == Init /\ [][NextTools]_vars

(***************************************************************************)
(* Queries served one after another (RAGSystem.query): generate_response   *)
(* with the ToolManager, then the citations are collected and reset        *)
(***************************************************************************)
MaxQueries == 2     \* queries served in a run

\* RAGSystem after construction: both tools registered, no query served
BothRegistered ==
    register_tool(register_tool(<<>>, SearchTool).registry, OutlineTool).registry
\* returned: the citations returned by the queries served so far
IdleCaller == [stage |-> "idle", served |-> 0, sources |-> <<>>,
               returned |-> <<>>]

InitRag ==
    /\ EngineIdle
    /\ registry = BothRegistered
    /\ last_sources = [t \in SearchToolInstances |-> <<>>]
    /\ op = [name |-> "init"]
    /\ client = "scripted"
    /\ store = "small"
    /\ callers = <<IdleCaller>>

RagPrompt(q) == "Answer this question about course materials: " \o q

\* query: the caller starts generate_response with the registry's tool
\* definitions and the registry as tool manager
Query(q, h) ==
    /\ callers[1].stage = "idle"
    /\ callers[1].served < MaxQueries
    /\ StartGenerate(RagPrompt(q), h, get_tool_definitions(registry), Registry, 2)
    /\ callers' = [callers EXCEPT ![1].stage = "generating",
                                  ![1].served = @ + 1,
                                  ![1].sources = <<>>]
    /\ op' = [name |-> "get_tool_definitions",
              result |-> Return(get_tool_definitions(registry))]
    /\ UNCHANGED <<client, store, registry, last_sources>>

\* query: generate_response has returned, the caller collects the citations
CollectSources ==
    /\ callers[1].stage = "generating"
    /\ pc = "done"
    /\ callers' = [callers EXCEPT ![1].stage = "collected",
                                  ![1].sources =
                                        get_last_sources(registry, last_sources)]
    /\ op' = [name |-> "get_last_sources",
              result |-> Return(get_last_sources(registry, last_sources))]
    /\ UNCHANGED <<engineVars, client, store, registry, last_sources>>

\* query: the caller resets the citations and returns; the locals of the
\* finished generate_response call are gone
ResetAndReturn ==
    /\ callers[1].stage = "collected"
    /\ last_sources' = reset_sources(registry, last_sources)
    /\ op' = [name |-> "reset_sources", result |-> Return(None)]
    /\ callers' = [callers EXCEPT ![1].stage = "idle",
                                  ![1].returned = Append(@, callers[1].sources)]
    /\ pc' = "idle"
    /\ query' = None
    /\ conversation_history' = None
    /\ tools' = <<>>
    /\ tool_manager' = None
    /\ max_phases' = 2
    /\ phase' = None
    /\ api_params' = base_params
    /\ initial_response' = [stop_reason |-> None, content |-> <<>>]
    /\ idx' = 0
    /\ messages' = <<>>
    /\ tool_results' = <<>>
    /\ investigation_result' = NoResult
    /\ synthesis_result' = NoResult
    /\ calls' = <<>>
    /\ answer' = None
    /\ raised' = None
    /\ UNCHANGED <<client, store, registry>>

NextRag ==
    \/ \E q \in Queries, h \in Histories : Query(q, h)
    \/ ExecutePhase
    \/ ExecuteSynthesisPhase
    \/ ExecuteRegistryTool
    \/ FinalCreate
    \/ CollectSources
    \/ ResetAndReturn

SpecRag == InitRag /\ [][NextRag]_vars

(***************************************************************************)
(* Two queries served at the same time through one ToolManager             *)
(***************************************************************************)
ConcCallers == {1, 2}
\* recorded: the citations the caller's own searches recorded in its query
WaitingCaller == [stage |-> "idle", sources |-> <<>>, recorded |-> <<>>]

InitConc ==
    /\ EngineIdle
    /\ registry = BothRegistered
    /\ last_sources = [t \in SearchToolInstances |-> <<>>]
    /\ op = [name |-> "init"]
    /\ client = "scripted"
    /\ store = "small"
    /\ callers = [w \in ConcCallers |-> WaitingCaller]

\* variant: a caller waits while the query of another caller is running
Blocked_WhileOtherRuns(cs, w) ==
    \E v \in DOMAIN cs \ {w} : cs[v].stage \in {"generating", "collected"}

\* ToolManager and the tools hold no lock: no caller ever waits for another
Blocked(cs, w) == FALSE

\* query of caller w: generate_response is called
CallerStarts(w) ==
    /\ callers[w].stage = "idle"
    /\ ~Blocked(callers, w)
    /\ callers' = [callers EXCEPT ![w].stage = "generating"]
    /\ op' = [name |-> "get_tool_definitions", by |-> w,
              result |-> Return(get_tool_definitions(registry))]
    /\ UNCHANGED <<engineVars, client, store, registry, last_sources>>

\* generate_response of caller w: one tool_manager.execute_tool call
CallerExecutes(w, name, args) ==
    /\ callers[w].stage = "generating"
    /\ ~Blocked(callers, w)
    /\ \E ans \in BackendAnswers(registry, store, name, args) :
        LET ex == execute_tool(registry, last_sources, name, args, ans)
        IN  /\ last_sources' = ex.after
            /\ registry' = ex.tools
            /\ op' = [name |-> "execute_tool", by |-> w, result |-> ex.result]
            /\ callers' = [callers EXCEPT ![w].recorded =
                                IF ex.found /\ name = "search_course_content"
                                        /\ ans.search.error = None
                                        /\ ~is_empty(ans.search)
                                THEN ex.after[SearchTool] ELSE @]
    /\ UNCHANGED <<engineVars, client, store>>

\* query of caller w: generate_response has returned, the citations are
\* collected
CallerCollects(w) ==
    /\ callers[w].stage = "generating"
    /\ ~Blocked(callers, w)
    /\ callers' = [callers EXCEPT ![w].stage = "collected",
                                  ![w].sources =
                                        get_last_sources(registry, last_sources)]
    /\ op' = [name |-> "get_last_sources", by |-> w,
              result |-> Return(get_last_sources(registry, last_sources))]
    /\ UNCHANGED <<engineVars, client, store, registry, last_sources>>

\* query of caller w: the citations are reset and the query returns
CallerResets(w) ==
    /\ callers[w].stage = "collected"
    /\ ~Blocked(callers, w)
    /\ last_sources' = reset_sources(registry, last_sources)
    /\ callers' = [callers EXCEPT ![w].stage = "returned"]
    /\ op' = [name |-> "reset_sources", by |-> w, result |-> Return(None)]
    /\ UNCHANGED <<engineVars, client, store, registry>>

NextConc ==
    \/ \E w \in ConcCallers : CallerStarts(w)
    \/ \E w \in ConcCallers : CallerExecutes(w, "search_course_content",
                                               [query |-> "MCP"])
    \/ \E w \in ConcCallers : CallerCollects(w)
    \/ \E w \in ConcCallers : CallerResets(w)

SpecConc == InitConc /\ [][NextConc]_vars

(***************************************************************************)
(* CourseOutlineTool.execute called directly against a backend.  A course  *)
(* name and a title are sequences of characters, so that lower(), in and   *)
(* startswith() are computed on them                                       *)
(***************************************************************************)
MaxCourses == 2     \* courses the backend lists

UpperCase == <<"A", "B", "C", "D", "E", "F", "G", "H", "I", "J", "K", "L", "M",
               "N", "O", "P", "Q", "R", "S", "T", "U", "V", "W", "X", "Y", "Z">>
LowerCase == <<"a", "b", "c", "d", "e", "f", "g", "h", "i", "j", "k", "l", "m",
               "n", "o", "p", "q", "r", "s", "t", "u", "v", "w", "x", "y", "z">>

\* str.lower()
lower(s) ==
    [i \in 1..Len(s) |->
        IF \E k \in 1..Len(UpperCase) : UpperCase[k] = s[i]
        THEN LowerCase[CHOOSE k \in 1..Len(UpperCase) : UpperCase[k] = s[i]]
        ELSE s[i]]

\* s.startswith(p)
startswith(s, p) == Len(p) <= Len(s) /\ SubSeq(s, 1, Len(p)) = p

\* p in s
contains(s, p) ==
    \E k \in 0..(Len(s) - Len(p)) : SubSeq(s, k + 1, k + Len(p)) = p

\* the characters as one text
RECURSIVE Text(_)
Text(s) == IF Len(s) = 0 THEN "" ELSE s[1] \o Text(Tail(s))

\* None where a title is expected
NoTitle == <<None>>
\* if title:
TruthyTitle(t) == t # NoTitle /\ Len(t) > 0

TitleCourseX == <<"C", "o", "u", "r", "s", "e", " ", "X">>
TitleCourseY == <<"C", "o", "u", "r", "s", "e", " ", "Y">>
TitleMCP == <<"M", "C", "P">>
TitleMCPAdvanced == <<"M", "C", "P", " ", "A", "d", "v", "a", "n", "c", "e", "d">>
TitleCourseQ == <<"C", "o", "u", "r", "s", "e", " ", "Q">>

\* the course metadata the backend may hold: with and without instructor,
\* course link, lessons and lesson links
CourseCatalog ==
    {[title |-> TitleCourseX, lessons |-> <<>>],
     [title |-> TitleCourseY, instructor |-> "Ada", lessons |-> <<>>],
     [title |-> TitleMCP, instructor |-> "Ada",
      course_link |-> "https://example.com/mcp",
      lessons |-> <<[lesson_number |-> 0, lesson_title |-> "Intro",
                     lesson_link |-> LessonLink],
                    [lesson_number |-> 1, lesson_title |-> "Tools"]>>],
     [title |-> TitleMCPAdvanced,
      lessons |-> <<[lesson_number |-> 1, lesson_title |-> "Intro"]>>]}

\* what get_all_courses_metadata may list: courses with distinct titles
CourseLists ==
    {cs \in UNION {[1..n -> CourseCatalog] : n \in 0..MaxCourses} :
        \A i, j \in 1..Len(cs) : i # j => cs[i].title # cs[j].title}

\* the course_name arguments
CourseNames ==
    {<<"c", "o", "u", "r">>, <<"m", "c", "p">>, TitleMCP, TitleCourseY,
     <<"a", "d", "v", "a", "n", "c", "e", "d">>, <<"z", "z", "z">>, <<>>}

\* what _resolve_course_name may answer: None, a stored title, a title
\* that is not stored; a backend operation may also raise
ResolvedTitles ==
    {NoTitle, TitleCourseQ} \cup {c.title : c \in CourseCatalog}
BackendFailure == "connection refused"
ResolveOutcomes ==
    {Return(t) : t \in ResolvedTitles} \cup {Raise(BackendFailure)}
MetadataOutcomes(courses) == {Return(courses), Raise(BackendFailure)}
\* the resolver was not asked
NotAsked == [kind |-> "none", val |-> NoTitle]

\* _format_outline
RECURSIVE LessonLines(_)
LessonLines(lessons) ==
    IF Len(lessons) = 0 THEN ""
    ELSE LET lesson == lessons[1]
             lesson_num == IF "lesson_number" \in DOMAIN lesson
                           THEN ToString(lesson.lesson_number) ELSE "?"
             lesson_title == IF "lesson_title" \in DOMAIN lesson
                             THEN lesson.lesson_title ELSE "Untitled"
         IN  (IF TruthyText(lesson, "lesson_link")
              THEN "- Lesson " \o lesson_num \o ": [" \o lesson_title \o "]("
                        \o lesson.lesson_link \o ")\n"
              ELSE "- Lesson " \o lesson_num \o ": " \o lesson_title \o "\n")
             \o LessonLines(Tail(lessons))

_format_outline(course_metadata) ==
    LET title == IF "title" \in DOMAIN course_metadata
                 THEN Text(course_metadata.title) ELSE "Unknown Course"
        instructor == IF "instructor" \in DOMAIN course_metadata
                      THEN course_metadata.instructor ELSE "Unknown"
        lessons == IF "lessons" \in DOMAIN course_metadata
                   THEN course_metadata.lessons ELSE <<>>
        header == IF TruthyText(course_metadata, "course_link")
                  THEN "# [" \o title \o "](" \o course_metadata.course_link \o ")"
                  ELSE "# " \o title
    IN  header \o "\n**Instructor:** " \o instructor \o "\n"
            \o (IF Len(lessons) > 0
                THEN "\n**Lessons (" \o ToString(Len(lessons)) \o " total):**\n"
                        \o LessonLines(lessons)
                ELSE "\n**No lessons found**\n")

\* course.get('title', '')
TitleOf(course) == IF "title" \in DOMAIN course THEN course.title ELSE <<>>

\* the loop with break: the first of the places that pass the test, 0
\* when there is none
FirstCourse(places) ==
    IF places = {} THEN 0
    ELSE CHOOSE i \in places : \A j \in places : i <= j

\* variant of the partial test: the title is a prefix of the name
PartialMatch_TitlePrefixOfName(title, course_name_lower) ==
    Len(title) > 0 /\ startswith(course_name_lower, title)

\* course_name_lower in title or title.startswith(course_name_lower)
PartialMatch(title, course_name_lower) ==
    contains(title, course_name_lower) \/ startswith(title, course_name_lower)

\* the text for a name no course matches
NotFoundText(course_name, all_courses) ==
    "No course found matching '" \o Text(course_name)
        \o "'. Available courses: "
        \o Join([i \in 1..Len(all_courses) |->
                    IF "title" \in DOMAIN all_courses[i]
                    THEN Text(all_courses[i].title) ELSE "Unknown"], ", ")

\* the three matching steps on the listed courses; resolved is the outcome
\* of _resolve_course_name, read only when the first two steps found nothing
ResolveCourse(course_name, all_courses, resolved, exact_first) ==
    LET course_name_lower == lower(course_name)
        Exact(course) == lower(TitleOf(course)) = course_name_lower
        Partial(course) == PartialMatch(lower(TitleOf(course)), course_name_lower)
        Resolved(course) == "title" \in DOMAIN course /\ course.title = resolved.val
        Places(Test(_)) == {i \in 1..Len(all_courses) : Test(all_courses[i])}
        first == IF exact_first THEN FirstCourse(Places(Exact))
                 ELSE FirstCourse(Places(Partial))
        second == IF first # 0 THEN first
                  ELSE IF exact_first THEN FirstCourse(Places(Partial))
                  ELSE FirstCourse(Places(Exact))
        base == [course_name |-> course_name, meta |-> Return(all_courses),
                 courses |-> all_courses]
    IN  IF second # 0
        THEN base @@ [calls |-> <<"get_all_courses_metadata">>,
                      resolved |-> NotAsked, chosen |-> second,
                      result |-> Return(_format_outline(all_courses[second]))]
        ELSE LET asked == base @@
                    [calls |-> <<"get_all_courses_metadata",
                                 "_resolve_course_name">>,
                     resolved |-> resolved]
                 third == IF resolved.kind = "return" /\ TruthyTitle(resolved.val)
                          THEN FirstCourse(Places(Resolved)) ELSE 0
             IN  IF resolved.kind = "raise"
                 THEN asked @@ [chosen |-> 0, result |-> resolved]
                 ELSE IF third # 0
                 THEN asked @@ [chosen |-> third,
                        result |-> Return(_format_outline(all_courses[third]))]
                 ELSE asked @@ [chosen |-> 0,
                        result |-> Return(NotFoundText(course_name, all_courses))]

\* what execute does when get_all_courses_metadata raises
MetadataRaised(course_name, meta) ==
    [course_name |-> course_name, meta |-> meta, courses |-> <<>>,
     calls |-> <<"get_all_courses_metadata">>, resolved |-> NotAsked,
     chosen |-> 0, result |-> meta]

\* variant: the partial step runs before the exact step
CourseOutlineTool_execute_PartialFirst(course_name, meta, resolved) ==
    IF meta.kind = "raise" THEN MetadataRaised(course_name, meta)
    ELSE IF Len(meta.val) = 0
    THEN [course_name |-> course_name, meta |-> meta, courses |-> meta.val,
          calls |-> <<"get_all_courses_metadata">>, resolved |-> NotAsked,
          chosen |-> 0, result |-> Return("No courses found in the system")]
    ELSE ResolveCourse(course_name, meta.val, resolved, FALSE)

\* variant: an empty metadata list goes through the three steps as well
CourseOutlineTool_execute_NoEmptyCheck(course_name, meta, resolved) ==
    IF meta.kind = "raise" THEN MetadataRaised(course_name, meta)
    ELSE ResolveCourse(course_name, meta.val, resolved, TRUE)

\* CourseOutlineTool.execute: a record of the execution with the backend
\* operations called, the place of the chosen course in the metadata (0
\* when none) and the result; meta and resolved are the outcomes of
\* get_all_courses_metadata and of _resolve_course_name
CourseOutlineTool_execute(course_name, meta, resolved) ==
    IF meta.kind = "raise" THEN MetadataRaised(course_name, meta)
    ELSE IF Len(meta.val) = 0
    THEN [course_name |-> course_name, meta |-> meta, courses |-> meta.val,
          calls |-> <<"get_all_courses_metadata">>, resolved |-> NotAsked,
          chosen |-> 0, result |-> Return("No courses found in the system")]
    ELSE ResolveCourse(course_name, meta.val, resolved, TRUE)

\* the backend holds any list of courses
InitOutline ==
    /\ EngineIdle
    /\ RegistryEmpty
    /\ client = "any"
    /\ store \in {[courses |-> cs] : cs \in CourseLists}
    /\ callers = <<>>

OutlineLookup(course_name) ==
    /\ pc = "idle"
    /\ \E meta \in MetadataOutcomes(store.courses) :
       \E resolved \in ResolveOutcomes :
            op' = [name |-> "get_course_outline",
                   exec |-> CourseOutlineTool_execute(course_name, meta, resolved)]
    /\ UNCHANGED <<engineVars, client, store, registry, last_sources, callers>>

NextOutline == \E course_name \in CourseNames : OutlineLookup(course_name)

SpecOutline == InitOutline /\ [][NextOutline]_vars

(***************************************************************************)
(* Reading the call log                                                    *)
(***************************************************************************)
Phases == {"investigate", "synthesize"}
LLMIdx == {i \in DOMAIN calls : calls[i].type = "llm"}
ToolIdx == {i \in DOMAIN calls : calls[i].type = "tool"}
NumLLMCalls == Cardinality(LLMIdx)
NumToolCalls == Cardinality(ToolIdx)
PhasesRun == Cardinality({calls[i].phase : i \in DOMAIN calls})

\* the reply of LLM call c had its content[0].text read
TextTaken(c) ==
    /\ c.type = "llm"
    /\ c.outcome.kind = "return"
    /\ c.followup \/ ~(c.outcome.val.stop_reason = "tool_use" /\ tool_manager # None)

\* the external call c, or the reading of its reply, raised inside its phase
Failed(c) ==
    \/ c.outcome.kind = "raise"
    \/ TextTaken(c) /\ ContentText(c.outcome.val.content).kind = "raise"

\* the message of the exception of a failed call
ErrorOf(c) ==
    IF c.outcome.kind = "raise" THEN c.outcome.val
    ELSE ContentText(c.outcome.val.content).val

PhaseRaised(p) == \E i \in DOMAIN calls : calls[i].phase = p /\ Failed(calls[i])
Done == pc = "done"
FirstReplyStop(sr) ==
    /\ Len(calls) >= 1
    /\ calls[1].outcome.kind = "return"
    /\ calls[1].outcome.val.stop_reason = sr
InvestigationUsedTool ==
    TruthyFlag(investigation_result, "success")
        /\ TruthyFlag(investigation_result, "used_tools")
SynthesisEntered == \E i \in DOMAIN calls : calls[i].phase = "synthesize"
LastCall == calls[Len(calls)]

(***************************************************************************)
(* Claims about generate_response                                          *)
(***************************************************************************)

\* C1: whatever the LLM calls and tool executions of both phases do (return
\* or raise), a finished generate_response has raised nothing and has
\* returned a string.
C1_NoExceptionStringAnswer ==
    /\ raised = None
    /\ Done => answer # None

\* C1 witness: the query ended after a tool execution of the synthesis
\* phase raised
C1_Witness ==
    /\ Done
    /\ raised = None
    /\ answer # None
    /\ \E i \in ToolIdx : calls[i].phase = "synthesize" /\ Failed(calls[i])
    /\ \E i \in LLMIdx : calls[i].outcome.kind = "return"

\* C2 as stated: after an investigation that succeeded with a tool round,
\* a raising synthesis phase makes generate_response return the
\* investigation text, whatever that text is.
C2_Original ==
    (Done /\ InvestigationUsedTool /\ PhaseRaised("synthesize"))
        => answer = investigation_result.response

\* C2 amended: the same, for every non-empty investigation text.
C2_FallbackToInvestigationText ==
    (/\ Done
     /\ InvestigationUsedTool
     /\ PhaseRaised("synthesize")
     /\ investigation_result.response # "")
        => answer = investigation_result.response

\* C2 witness: synthesis raised in its follow-up call and the non-empty
\* investigation text was returned
C2_Witness ==
    /\ Done
    /\ InvestigationUsedTool
    /\ investigation_result.response = "Answer A"
    /\ LastCall.phase = "synthesize" /\ LastCall.type = "llm" /\ LastCall.followup
    /\ Failed(LastCall)
    /\ answer = "Answer A"

\* C3: synthesis is skipped exactly when the investigation result is failed
\* or has used_tools false; when skipped, the answer is the investigation
\* text and every external call of the query belongs to the investigation.
C3_SkipSynthesis ==
    Done =>
        /\ (phase # "synthesize")
                <=> (\/ ~TruthyFlag(investigation_result, "success")
                     \/ ~TruthyFlag(investigation_result, "used_tools"))
        /\ (phase # "synthesize") =>
                /\ answer = investigation_result.response
                /\ synthesis_result = NoResult
                /\ \A i \in DOMAIN calls : calls[i].phase = "investigate"

\* C3 witness: synthesis was skipped after an investigation that failed
\* in its tool round
C3_Witness ==
    /\ Done
    /\ phase = "investigate"
    /\ ~TruthyFlag(investigation_result, "success")
    /\ NumToolCalls >= 1
    /\ answer = investigation_result.response

\* C4: when the investigation LLM call returns with stop reason end_turn,
\* the query issues exactly one LLM call, executes no tool and returns the
\* text of that call.
C4_DirectAnswer ==
    (Done /\ FirstReplyStop("end_turn")) =>
        /\ NumLLMCalls = 1
        /\ NumToolCalls = 0
        /\ ContentText(calls[1].outcome.val.content) = Return(answer)

\* C4 witness: a direct answer given with tool schemas attached
C4_Witness ==
    /\ Done
    /\ FirstReplyStop("end_turn")
    /\ "tools" \in DOMAIN calls[1].params
    /\ tool_manager # None
    /\ answer = "Answer B"

\* C5 as stated: when the investigation LLM call returns with stop reason
\* tool_use, at least two LLM calls are issued, whatever the tools do and
\* with or without a tool manager.
C5_Original ==
    (Done /\ FirstReplyStop("tool_use")) => NumLLMCalls >= 2

\* C5 amended: when the investigation LLM call returns with stop reason
\* tool_use, a tool manager was supplied and no tool execution of the
\* investigation raises, at least two LLM calls are issued, the second
\* being the investigation's post-tool follow-up.
C5_FollowUpAfterToolUse ==
    (/\ Done
     /\ FirstReplyStop("tool_use")
     /\ tool_manager # None
     /\ ~\E i \in ToolIdx : calls[i].phase = "investigate" /\ Failed(calls[i]))
        => /\ NumLLMCalls >= 2
           /\ \E i \in LLMIdx :
                /\ calls[i].phase = "investigate"
                /\ calls[i].followup
                /\ \A j \in LLMIdx : j < i => j = 1

\* C5 witness: two tools executed in the investigation, then the follow-up
C5_Witness ==
    /\ Done
    /\ FirstReplyStop("tool_use")
    /\ Cardinality({i \in ToolIdx : calls[i].phase = "investigate"}) = 2
    /\ NumLLMCalls >= 2
    /\ calls[4].type = "llm" /\ calls[4].followup

\* C6: at most 4 LLM calls per query; per phase one first call, at most
\* one follow-up call, and every tool execution of the phase lies between
\* the two with no LLM call in between, so the reply to a follow-up never
\* starts another tool round.
C6_BoundedRounds ==
    /\ NumLLMCalls <= 4
    /\ \A p \in Phases :
        /\ Cardinality({i \in LLMIdx : calls[i].phase = p /\ calls[i].followup}) <= 1
        /\ Cardinality({i \in LLMIdx : calls[i].phase = p /\ ~calls[i].followup}) <= 1
    /\ \A j \in ToolIdx :
        /\ \E i \in LLMIdx :
            /\ i < j
            /\ calls[i].phase = calls[j].phase
            /\ ~calls[i].followup
            /\ \A m \in (i + 1)..(j - 1) : calls[m].type = "tool"
        /\ \A i \in LLMIdx :
            (calls[i].phase = calls[j].phase /\ calls[i].followup) => j < i

\* C6 witness: 4 LLM calls, two tool rounds, and both follow-up replies
\* carried stop reason tool_use without starting another round
C6_Witness ==
    /\ Done
    /\ NumLLMCalls = 4
    /\ \A p \in Phases :
        /\ \E j \in ToolIdx : calls[j].phase = p
        /\ \E i \in LLMIdx :
            /\ calls[i].phase = p
            /\ calls[i].followup
            /\ calls[i].outcome.kind = "return"
            /\ calls[i].outcome.val.stop_reason = "tool_use"

\* C7: after an investigation that succeeded with a tool round, a synthesis
\* phase that does not raise makes generate_response return the text of the
\* last synthesis reply; the query issues 3 LLM calls when synthesis
\* answers directly and 4 when it runs a tool round.
C7_SynthesisText ==
    (Done /\ InvestigationUsedTool /\ ~PhaseRaised("synthesize")) =>
        /\ LastCall.type = "llm"
        /\ LastCall.phase = "synthesize"
        /\ ContentText(LastCall.outcome.val.content) = Return(answer)
        /\ answer = synthesis_result.response
        /\ IF LastCall.followup THEN NumLLMCalls = 4 ELSE NumLLMCalls = 3

\* C7 witness: synthesis ran a tool round and its follow-up text, which
\* differs from the investigation text, was returned
C7_Witness ==
    /\ Done
    /\ InvestigationUsedTool
    /\ ~PhaseRaised("synthesize")
    /\ investigation_result.response = "Answer A"
    /\ \E j \in ToolIdx : calls[j].phase = "synthesize"
    /\ NumLLMCalls = 4
    /\ answer = "Answer B"

\* C7, direct case reached: synthesis answered without a tool round
C7_DirectReached ==
    /\ Done
    /\ InvestigationUsedTool
    /\ ~PhaseRaised("synthesize")
    /\ NumLLMCalls = 3

\* C8 as stated: the returned value is never null and never the empty
\* string.
C8_NeverEmpty ==
    Done => (answer # None /\ answer # "")

\* C9 as stated: no more than max_phases phases are run.
C9_MaxPhases ==
    PhasesRun <= max_phases

\* C10: when a step of the investigation raises, that step is the last
\* external call of the query and the answer is
\* 'Error in investigate phase: <message>'.
C10_InvestigationFailure ==
    (Done /\ PhaseRaised("investigate")) =>
        /\ LastCall.phase = "investigate"
        /\ Failed(LastCall)
        /\ \A i \in DOMAIN calls : Failed(calls[i]) => i = Len(calls)
        /\ answer = "Error in investigate phase: " \o ErrorOf(LastCall)

\* C10 witness: the second tool execution of the investigation raised
C10_Witness ==
    /\ Done
    /\ Len(calls) = 3
    /\ calls[2].type = "tool" /\ ~Failed(calls[2])
    /\ calls[3].type = "tool" /\ Failed(calls[3])
    /\ answer = "Error in investigate phase: Tool execution failed"

(***************************************************************************)
(* Reading the last operation on the ToolManager                           *)
(***************************************************************************)
\* the last operation was execute_tool and reached a CourseSearchTool
SearchExecuted ==
    /\ op.name = "execute_tool"
    /\ op.exec.found
    /\ registry[RegistryIndex(registry, op.exec.tool_name)].tool.class
            = "CourseSearchTool"
\* the tool instance the last execute_tool reached
ExecTool == registry[RegistryIndex(registry, op.exec.tool_name)].tool
\* what the backend answered to the search of execution ex
BackendError(ex) == ex.backend.search.error # None
BackendEmpty(ex) == ex.backend.search.error = None /\ is_empty(ex.backend.search)
BackendFound(ex) == ex.backend.search.error = None /\ ~is_empty(ex.backend.search)

(***************************************************************************)
(* C11..C20: the content search tool, its citations, unknown tool names    *)
(***************************************************************************)
\* C11: after an execution of the content search tool whose backend result
\* carries an error, or is empty with no error, the tool instance has no
\* citation recorded, whatever executions preceded it.
\* The code returns early in both cases without touching last_sources, so
\* the citations of an earlier successful search are still recorded.
C11_NoCitationsAfterFailure ==
    (SearchExecuted /\ (BackendError(op.exec) \/ BackendEmpty(op.exec)))
        => last_sources[ExecTool] = <<>>

\* C12: when the backend result set carries an error, the content search
\* tool returns exactly that error string, whether or not the result set
\* holds documents, and asks the backend for no lesson link.
C12_ErrorVerbatim ==
    (SearchExecuted /\ BackendError(op.exec))
        => /\ op.exec.result = Return(op.exec.backend.search.error)
           /\ op.exec.lookups = <<>>

\* an error result that holds no document, so that the empty-result step
\* would apply, was returned as the error text
C12_Witness ==
    /\ SearchExecuted
    /\ BackendError(op.exec)
    /\ is_empty(op.exec.backend.search)
    /\ op.exec.result = Return("Search error: connection refused")

\* the "No relevant content found" message that names every filter given
EmptyMessage(args) ==
    "No relevant content found"
        \o (IF "course_name" \in DOMAIN args
            THEN " in course '" \o args.course_name \o "'" ELSE "")
        \o (IF "lesson_number" \in DOMAIN args
            THEN " in lesson " \o ToString(args.lesson_number) ELSE "")
        \o "."

\* C13: when the backend result set is empty with no error, the content
\* search tool returns 'No relevant content found' followed by the course
\* filter and then the lesson filter, for every filter given, lesson number
\* 0 included.
\* The code tests the lesson filter by truthiness, so lesson number 0 is
\* left out of the message.
C13_EmptyMessageNamesFilters ==
    (SearchExecuted /\ BackendEmpty(op.exec))
        => op.exec.result = Return(EmptyMessage(op.exec.args))

\* the i-th result of execution ex as the claims describe it: its label,
\* the link the backend returned for it, its citation and its text block
ResultLabel(ex, i) ==
    LET meta == ex.backend.search.metadata[i]
    IN  meta.course_title
            \o (IF "lesson_number" \in DOMAIN meta
                THEN " - Lesson " \o ToString(meta.lesson_number) ELSE "")
LinkReturned(ex, i) == ex.backend.links[i] # None
ExpectedCitation(ex, i) ==
    IF LinkReturned(ex, i)
    THEN "[" \o ResultLabel(ex, i) \o "](" \o ex.backend.links[i] \o ")"
    ELSE ResultLabel(ex, i)
ExpectedBlock(ex, i) ==
    (IF LinkReturned(ex, i)
     THEN "[[" \o ResultLabel(ex, i) \o "]](" \o ex.backend.links[i] \o ")"
     ELSE "[" \o ResultLabel(ex, i) \o "]")
        \o "\n" \o ex.backend.search.documents[i]
\* the first n blocks, each separated from the next by a blank line
RECURSIVE ExpectedText(_, _)
ExpectedText(ex, n) ==
    IF n = 0 THEN ""
    ELSE IF n = 1 THEN ExpectedBlock(ex, 1)
    ELSE ExpectedText(ex, n - 1) \o "\n\n" \o ExpectedBlock(ex, n)

\* C14: formatting N aligned (document, metadata) pairs returns N text
\* blocks joined by blank lines and records N citations, both in input
\* order; a citation has the markdown-link form when the backend returned a
\* lesson link for its result, and is the plain 'Title - Lesson K', or the
\* bare title without a lesson number, otherwise.
C14_FormatResults ==
    (SearchExecuted /\ BackendFound(op.exec))
        => LET N == Len(op.exec.backend.search.documents)
           IN  /\ Len(last_sources[ExecTool]) = N
               /\ \A i \in 1..N :
                    last_sources[ExecTool][i] = ExpectedCitation(op.exec, i)
               /\ op.exec.result = Return(ExpectedText(op.exec, N))

\* two results, the first with a lesson link, the second without lesson
\* number
C14_Witness ==
    /\ SearchExecuted
    /\ BackendFound(op.exec)
    /\ op.exec.result =
        Return("[[MCP Course - Lesson 0]](https://example.com/lesson)\nchunk 1"
                \o "\n\n" \o "[MCP Course]\nchunk 2")
    /\ last_sources[ExecTool] =
        <<"[MCP Course - Lesson 0](https://example.com/lesson)", "MCP Course">>

\* the tool executions of the running query that were successful content
\* searches, and the citations such an execution produces
SearchOk(c) ==
    /\ c.type = "tool"
    /\ c.exec.found
    /\ c.exec.tool_name = "search_course_content"
    /\ BackendFound(c.exec)
OkIdx == {i \in DOMAIN calls : SearchOk(calls[i])}
Citations(ex) ==
    [i \in 1..Len(ex.backend.search.documents) |-> ExpectedCitation(ex, i)]

\* C15: right after a successful execution of the content search tool, the
\* citations recorded on the tool are exactly the citations of that
\* execution; those of earlier executions are gone.
C15_CitationsReplaced ==
    (Len(calls) > 0 /\ SearchOk(calls[Len(calls)]))
        => last_sources[SearchTool] = Citations(calls[Len(calls)].exec)

\* two successful searches in a row with different citations: only those
\* of the second are recorded
C15_Witness ==
    /\ Len(calls) = 3
    /\ SearchOk(calls[2])
    /\ SearchOk(calls[3])
    /\ Len(Citations(calls[2].exec)) = 2
    /\ Len(Citations(calls[3].exec)) = 1
    /\ last_sources[SearchTool] = Citations(calls[3].exec)

\* the citations of all successful searches among the first n calls of the
\* running query, in execution order
RECURSIVE AccumulatedCitations(_)
AccumulatedCitations(n) ==
    IF n = 0 THEN <<>>
    ELSE AccumulatedCitations(n - 1)
            \o (IF SearchOk(calls[n]) THEN Citations(calls[n].exec) ELSE <<>>)
\* the last successful search of the running query, 0 when there is none
LastOk == IF OkIdx = {} THEN 0 ELSE CHOOSE i \in OkIdx : \A j \in OkIdx : j <= i
Collected == callers[1].stage = "collected"

\* C16 as stated: the citations the caller collects after a query are those
\* of every successful search of the query, in execution order.
C16_Original ==
    Collected => callers[1].sources = AccumulatedCitations(Len(calls))

\* C16: the citations the caller collects after a query are exactly those
\* of the last successful search of the query, and none when no search of
\* the query succeeded; a failed or empty search after it leaves them.
C16_LastSearchCollected ==
    Collected =>
        callers[1].sources =
            IF LastOk = 0 THEN <<>> ELSE Citations(calls[LastOk].exec)

\* a successful search in investigation and another one in synthesis, with
\* different citations: the caller collects those of the second only
C16_Witness ==
    /\ Collected
    /\ \E i, j \in OkIdx :
        /\ calls[i].phase = "investigate"
        /\ calls[j].phase = "synthesize"
        /\ j = LastOk
        /\ Len(Citations(calls[i].exec)) = 2
        /\ Len(Citations(calls[j].exec)) = 1
        /\ callers[1].sources = Citations(calls[j].exec)

\* C17: in a run of queries served one after another, each followed by
\* collecting and resetting the citations, every citation collected for a
\* query was recorded by a tool execution of that query; right after
\* reset_sources, get_last_sources returns the empty list.
C17_NoLeakAcrossQueries ==
    /\ Collected =>
        \A k \in 1..Len(callers[1].sources) :
            \E i \in OkIdx :
                \E n \in 1..Len(Citations(calls[i].exec)) :
                    Citations(calls[i].exec)[n] = callers[1].sources[k]
    /\ op.name = "reset_sources"
        => get_last_sources(registry, last_sources) = <<>>

\* the second query of a run collects one citation, recorded by its own
\* search, after the first query had returned two other citations
C17_Witness ==
    /\ Collected
    /\ callers[1].served = 2
    /\ Len(callers[1].returned) = 1
    /\ Len(callers[1].returned[1]) = 2
    /\ Len(callers[1].sources) = 1
    /\ \A k \in 1..2 : callers[1].returned[1][k] # callers[1].sources[1]
    /\ LastOk # 0
    /\ callers[1].sources = Citations(calls[LastOk].exec)

\* the names under which a tool is registered
RegisteredNames(reg) == {reg[i].name : i \in 1..Len(reg)}

\* C19: execute_tool for a name with no tool registered under it returns
\* exactly "Tool '<name>' not found", raises nothing, runs no tool (the
\* backend is not asked) and leaves the registry and every citation buffer
\* as they were.
C19_UnknownToolStep ==
    (/\ op'.name = "execute_tool"
     /\ op'.exec.tool_name \notin RegisteredNames(registry))
        => /\ op'.exec.result =
                Return("Tool '" \o op'.exec.tool_name \o "' not found")
           /\ ~op'.exec.found
           /\ op'.exec.backend = NoAnswer
           /\ op'.exec.lookups = <<>>
           /\ registry' = registry
           /\ last_sources' = last_sources
C19_UnknownTool == [][C19_UnknownToolStep]_vars

\* a name that is not registered was requested while both tools were
\* registered and citations were recorded: the citations are still there
C19_Witness ==
    /\ op.name = "execute_tool"
    /\ op.exec.tool_name = "unknown_tool"
    /\ op.exec.result = Return("Tool 'unknown_tool' not found")
    /\ Len(registry) = 2
    /\ Len(last_sources[SearchTool]) = 2

\* tool executions of the running query that found no tool under the name
NotFoundIdx == {i \in ToolIdx : ~calls[i].exec.found}
\* the LLM call whose reply requested tool execution i
RequestOf(i) ==
    CHOOSE r \in LLMIdx : r < i /\ \A k \in (r + 1)..i : calls[k].type = "tool"
IsToolUse(b) == b.type = "tool_use"
ToolUseBlocks(content) == SelectSeq(content, IsToolUse)
\* the place in the call log of the follow-up call of that tool round
FollowUpOf(i) ==
    RequestOf(i)
        + Len(ToolUseBlocks(calls[RequestOf(i)].outcome.val.content)) + 1
PhaseResult(p) ==
    IF p = "investigate" THEN investigation_result ELSE synthesis_result
\* the reply of LLM call c starts with a text block
RepliedText(c) ==
    /\ c.outcome.kind = "return"
    /\ Len(c.outcome.val.content) > 0
    /\ c.outcome.val.content[1].type = "text"

\* C20: a request for an unregistered tool name does not abort the query:
\* the execution returns the 'not found' text, every tool call of the
\* same reply is executed in order, the follow-up LLM call of the phase is
\* issued with the 'not found' text as the tool result of that call, and,
\* when the follow-up returns a text reply, the phase ends as succeeded
\* with tools used.
C20_UnknownToolRecoverable ==
    \A i \in NotFoundIdx :
        LET c == calls[i]
            r == RequestOf(i)
            blocks == ToolUseBlocks(calls[r].outcome.val.content)
            f == FollowUpOf(i)
            text == "Tool '" \o c.name \o "' not found"
        IN  /\ c.outcome = Return(text)
            /\ raised = None
            /\ \A k \in (r + 1)..(f - 1) :
                IF k <= Len(calls)
                THEN /\ calls[k].type = "tool"
                     /\ calls[k].phase = c.phase
                     /\ calls[k].id = blocks[k - r].id
                     /\ calls[k].name = blocks[k - r].name
                ELSE pc = "execute_tool" /\ phase = c.phase
            /\ Len(calls) = f - 1 => pc = "final_create" /\ phase = c.phase
            /\ Len(calls) >= f =>
                /\ calls[f].type = "llm"
                /\ calls[f].followup
                /\ calls[f].phase = c.phase
                /\ LET msgs == calls[f].params.messages
                       last == msgs[Len(msgs)]
                   IN  /\ last.role = "user"
                       /\ Len(last.content) = Len(blocks)
                       /\ last.content[i - r] =
                            [type |-> "tool_result", tool_use_id |-> c.id,
                             content |-> text]
                /\ RepliedText(calls[f]) =>
                    /\ TruthyFlag(PhaseResult(c.phase), "success")
                    /\ TruthyFlag(PhaseResult(c.phase), "used_tools")
                    /\ PhaseResult(c.phase).response
                            = calls[f].outcome.val.content[1].text

\* the investigation reply asked for an unknown tool and then for a search:
\* the search ran and found content, the follow-up call returned a text,
\* the investigation succeeded and the query went on to synthesis
C20_Witness ==
    /\ NotFoundIdx = {2}
    /\ 3 \in OkIdx
    /\ Len(calls) = 4
    /\ calls[4].followup
    /\ RepliedText(calls[4])
    /\ InvestigationUsedTool
    /\ phase = "synthesize"
    /\ pc = "create"

\* C18: two queries running at the same time share the citation buffers of
\* the registry without locking: whatever the other query is doing, a query
\* can take its next step (start, execute a tool, collect, reset), and what
\* it collects is the content of the shared buffer, whoever recorded it.
\* So one query can collect the other's citations, and one query's reset
\* can clear citations the other has recorded and not yet collected.
C18_SharedWithoutLocking ==
    /\ \A w \in ConcCallers :
        /\ callers[w].stage = "idle" => ENABLED CallerStarts(w)
        /\ callers[w].stage = "generating" =>
            /\ ENABLED CallerExecutes(w, "search_course_content",
                                      [query |-> "MCP"])
            /\ ENABLED CallerCollects(w)
        /\ callers[w].stage = "collected" => ENABLED CallerResets(w)
    /\ op.name = "get_last_sources" =>
        callers[op.by].sources = last_sources[SearchTool]
    /\ op.name = "reset_sources" => last_sources[SearchTool] = <<>>

\* one query, which recorded nothing itself, has collected the citations
\* the other query recorded, and its reset has just cleared them while the
\* other query is still running and has not collected them
C18_Witness ==
    \E w, v \in ConcCallers :
        /\ w # v
        /\ op.name = "reset_sources" /\ op.by = w
        /\ callers[w].recorded = <<>>
        /\ callers[w].sources # <<>>
        /\ callers[w].sources = callers[v].recorded
        /\ callers[v].stage = "generating"
        /\ last_sources[SearchTool] = <<>>

(***************************************************************************)
(* Claims about the registry (SpecTools)                                   *)
(***************************************************************************)
\* tool_def.get("name") is truthy
HasName(tool) ==
    LET d == get_tool_definition(tool)
    IN  "name" \in DOMAIN d /\ d.name # None /\ d.name # ""

\* the tool bound to name in the tools dict, None when absent
ToolOf(reg, name) ==
    IF RegistryIndex(reg, name) = 0 THEN None
    ELSE reg[RegistryIndex(reg, name)].tool

C21_RegisterStep ==
    op'.name = "register_tool" =>
        IF HasName(op'.tool)
        THEN LET n == get_tool_definition(op'.tool).name
             IN  /\ op'.result = Return(None)
                 /\ ToolOf(registry', n) = op'.tool
                 /\ RegisteredNames(registry') = RegisteredNames(registry) \cup {n}
                 /\ \A m \in RegisteredNames(registry) \ {n} :
                        ToolOf(registry', m) = ToolOf(registry, m)
        ELSE /\ op'.result = Raise("Tool must have a 'name' in its definition")
             /\ registry' = registry

\* C21: register_tool stores the tool under the name of its own
\* definition and leaves the other names alone; a tool whose definition
\* has no name, or an empty one, makes it raise the configuration error
\* and the tools dict stays exactly as it was
C21_RegisterTool == [][C21_RegisterStep]_vars

\* a registration refused while two tools are registered
C21_Witness ==
    /\ op.name = "register_tool"
    /\ ~HasName(op.tool)
    /\ op.result.kind = "raise"
    /\ Len(registry) = 2

\* the names of the definitions get_tool_definitions returns, in order
DefNames(reg) ==
    [i \in 1..Len(get_tool_definitions(reg)) |->
        get_tool_definitions(reg)[i].name]

C22_Step ==
    /\ op'.name = "register_tool" =>
        IF HasName(op'.tool)
        THEN LET n == get_tool_definition(op'.tool).name
             IN  DefNames(registry') =
                    IF n \in RegisteredNames(registry) THEN DefNames(registry)
                    ELSE Append(DefNames(registry), n)
        ELSE DefNames(registry') = DefNames(registry)
    /\ op'.name = "get_tool_definitions" =>
        LET defs == op'.result.val
        IN  /\ op'.result.kind = "return"
            /\ Len(defs) = Cardinality(RegisteredNames(registry))
            /\ [i \in 1..Len(defs) |-> defs[i].name] = DefNames(registry)
            /\ \A i \in 1..Len(defs) :
                    defs[i] = get_tool_definition(ToolOf(registry, defs[i].name))

\* C22: get_tool_definitions returns one definition per registered tool,
\* in registration order: registering a new name puts its definition
\* after all the others, and a name that is registered again keeps the
\* place of its first registration
C22_DefinitionsInOrder == [][C22_Step]_vars

\* the definitions listed with the outline tool registered before the
\* search tool
C22_Witness ==
    /\ op.name = "get_tool_definitions"
    /\ Len(op.result.val) = 2
    /\ op.result.val[1].name = "get_course_outline"
    /\ op.result.val[2].name = "search_course_content"
    /\ ToolOf(registry, "get_course_outline") = OutlineTool2

\* C23: the tools dict is changed by register_tool only: a step of
\* execute_tool, get_tool_definitions, get_last_sources, reset_sources or
\* of a generate_response run leaves its names, their order and the tool
\* bound to each name as they were
C23_RegistryFrame == [][op'.name = "register_tool" \/ registry' = registry]_vars

\* a second query has run and collected its citations after the first one
\* was reset; a registered tool and a name that is not registered were
\* executed in it, and both tools are registered as at the start
C23_Witness ==
    /\ callers # <<>>
    /\ callers[1].stage = "collected"
    /\ callers[1].served = 2
    /\ \E i \in ToolIdx : calls[i].exec.found
    /\ NotFoundIdx # {}
    /\ registry = BothRegistered

(***************************************************************************)
(* Claims about the outline lookup (SpecOutline)                           *)
(***************************************************************************)
\* the last operation was an outline lookup whose metadata listing returned
OutlineListed ==
    op.name = "get_course_outline" /\ op.exec.meta.kind = "return"
ResolverAsked(e) ==
    \E k \in 1..Len(e.calls) : e.calls[k] = "_resolve_course_name"
\* the places of the courses whose title is the name, ignoring case
ExactMatches(e) ==
    {i \in 1..Len(e.courses) : lower(e.courses[i].title) = lower(e.course_name)}
\* the places of the courses whose title contains the name or starts with
\* it, ignoring case
PartialMatches(e) ==
    {i \in 1..Len(e.courses) :
        \/ contains(lower(e.courses[i].title), lower(e.course_name))
        \/ startswith(lower(e.courses[i].title), lower(e.course_name))}
StoredTitles(e) == [i \in 1..Len(e.courses) |-> e.courses[i].title]

\* C24: with course metadata present, a course whose title equals the
\* name ignoring case is chosen whenever there is one, whatever matches
\* partially before it; otherwise a course that matches partially is
\* chosen when there is one; _resolve_course_name is called exactly when
\* no title matches in either way
C24_ResolutionOrder ==
    (OutlineListed /\ Len(op.exec.courses) > 0) =>
        LET e == op.exec
        IN  /\ ExactMatches(e) # {} => e.chosen \in ExactMatches(e)
            /\ (ExactMatches(e) = {} /\ PartialMatches(e) # {})
                    => e.chosen \in PartialMatches(e)
            /\ ResolverAsked(e)
                    <=> (ExactMatches(e) = {} /\ PartialMatches(e) = {})

\* 'mcp' against ['MCP Advanced', 'MCP']: the second course is chosen
\* although the first one contains the name, and the resolver is not asked
C24_Witness ==
    /\ OutlineListed
    /\ op.exec.course_name = <<"m", "c", "p">>
    /\ StoredTitles(op.exec) = <<TitleMCPAdvanced, TitleMCP>>
    /\ 1 \in PartialMatches(op.exec)
    /\ op.exec.chosen = 2
    /\ ~ResolverAsked(op.exec)

\* the lookup of 'cour' against ['Course X', 'Course Y']
CourLookup ==
    /\ OutlineListed
    /\ op.exec.course_name = <<"c", "o", "u", "r">>
    /\ StoredTitles(op.exec) = <<TitleCourseX, TitleCourseY>>

\* C25 as stated: 'cour' matches neither title, the resolver is asked, and
\* when it finds nothing the not-found text is returned.
C25_Original ==
    CourLookup =>
        /\ PartialMatches(op.exec) = {}
        /\ ResolverAsked(op.exec)
        /\ op.exec.resolved = Return(NoTitle) =>
                op.exec.result = Return("No course found matching 'cour'. "
                    \o "Available courses: Course X, Course Y")

\* C25: 'cour' against ['Course X', 'Course Y'] matches no title exactly
\* but is contained in 'course x', so the partial step chooses Course X:
\* its outline is returned and the resolver is not asked.  The not-found
\* text is what a name contained in no title ('zzz') gets when the
\* resolver finds nothing.
C25_CourMatchesCourseX ==
    /\ CourLookup =>
        /\ ExactMatches(op.exec) = {}
        /\ op.exec.chosen = 1
        /\ op.exec.calls = <<"get_all_courses_metadata">>
        /\ op.exec.result =
                Return("# Course X\n**Instructor:** Unknown\n\n**No lessons found**\n")
    /\ (/\ OutlineListed
        /\ op.exec.course_name = <<"z", "z", "z">>
        /\ StoredTitles(op.exec) = <<TitleCourseX, TitleCourseY>>
        /\ op.exec.resolved = Return(NoTitle))
            => op.exec.result = Return("No course found matching 'zzz'. "
                    \o "Available courses: Course X, Course Y")

C25_Witness ==
    /\ CourLookup
    /\ op.exec.chosen = 1
    /\ ~ResolverAsked(op.exec)

\* the resolver answered, with nothing or with a title that is not stored
ResolverMissed(e) ==
    /\ ResolverAsked(e)
    /\ e.resolved.kind = "return"
    /\ \/ ~TruthyTitle(e.resolved.val)
       \/ \A i \in 1..Len(e.courses) : e.courses[i].title # e.resolved.val

\* C26: with course metadata present, a lookup whose three steps find no
\* course returns the not-found text with the requested name and every
\* stored title in the order of the metadata; with no course metadata the
\* fixed text is returned after the metadata listing alone
C26_NotFound ==
    OutlineListed =>
        LET e == op.exec
        IN  /\ Len(e.courses) = 0 =>
                /\ e.result = Return("No courses found in the system")
                /\ e.calls = <<"get_all_courses_metadata">>
            /\ (Len(e.courses) > 0 /\ ResolverMissed(e)) =>
                /\ e.chosen = 0
                /\ e.result =
                     Return("No course found matching '" \o Text(e.course_name)
                        \o "'. Available courses: "
                        \o Join([i \in 1..Len(e.courses) |->
                                    Text(e.courses[i].title)], ", "))

\* the resolver names a course that is not stored: the not-found text lists
\* the two stored titles in the order of the metadata
C26_Witness ==
    /\ OutlineListed
    /\ StoredTitles(op.exec) = <<TitleMCP, TitleCourseX>>
    /\ op.exec.resolved = Return(TitleCourseQ)
    /\ op.exec.result = Return("No course found matching 'zzz'. "
                            \o "Available courses: MCP, Course X")

(***************************************************************************)
(* Claims about the tool round and the tool schemas (Spec)                 *)
(***************************************************************************)
\* the first call of the phase in which call i of the log was made
PhaseStart(i) ==
    CHOOSE r \in LLMIdx :
        /\ r <= i
        /\ ~calls[r].followup
        /\ \A k \in (r + 1)..i : calls[k].type = "tool" \/ calls[k].followup
\* the tool_use blocks LLM call r was answered with
Requested(r) == ToolUseBlocks(calls[r].outcome.val.content)
FollowUpIdx == {i \in LLMIdx : calls[i].followup}

\* C27: the tool executions of a tool round are those of the tool_use
\* blocks of the reply, one after the other in content order; the
\* follow-up call is made when all of them have run, and its messages are
\* those of the request, the assistant reply and one user message with
\* one tool_result per execution, keyed by the id of its block, in the
\* same order
C27_ToolRound ==
    /\ \A i \in ToolIdx :
        LET r == PhaseStart(i)
            k == i - r
        IN  /\ \A j \in (r + 1)..i : calls[j].type = "tool"
            /\ k <= Len(Requested(r))
            /\ calls[i].id = Requested(r)[k].id
            /\ calls[i].name = Requested(r)[k].name
            /\ calls[i].input = Requested(r)[k].input
    /\ \A f \in FollowUpIdx :
        LET r == PhaseStart(f)
            n == Len(Requested(r))
            sent == calls[f].params.messages
            before == calls[r].params.messages
        IN  /\ f = r + n + 1
            /\ \A k \in 1..n : calls[r + k].outcome.kind = "return"
            /\ n > 0 =>
                /\ Len(sent) = Len(before) + 2
                /\ SubSeq(sent, 1, Len(before)) = before
                /\ sent[Len(before) + 1] =
                        [role |-> "assistant",
                         content |-> calls[r].outcome.val.content]
                /\ sent[Len(sent)] =
                        [role |-> "user",
                         content |-> [k \in 1..n |->
                            [type |-> "tool_result",
                             tool_use_id |-> Requested(r)[k].id,
                             content |-> calls[r + k].outcome.val]]]

\* a reply with two tool_use blocks: both were executed before the
\* follow-up call, which carries their two results in one message
C27_Witness ==
    \E f \in FollowUpIdx :
        /\ Len(Requested(PhaseStart(f))) = 2
        /\ Requested(PhaseStart(f))[1].id # Requested(PhaseStart(f))[2].id
        /\ f = PhaseStart(f) + 3
        /\ Len(calls[f].params.messages[Len(calls[f].params.messages)].content) = 2

\* the LLM call carries tools / tool_choice
CarriesTools(c) == "tools" \in DOMAIN c.params
CarriesToolChoice(c) == "tool_choice" \in DOMAIN c.params

\* C28: an LLM call carries tools exactly when it is the first call of a
\* phase and the tool list given to generate_response is not empty; the
\* tools are then that list, with tool_choice auto; a follow-up call
\* carries neither tools nor tool_choice
C28_ToolsOnFirstCallOnly ==
    \A i \in LLMIdx :
        LET c == calls[i]
        IN  /\ CarriesTools(c) <=> (~c.followup /\ Len(tools) > 0)
            /\ CarriesToolChoice(c) <=> CarriesTools(c)
            /\ CarriesTools(c) =>
                    /\ c.params.tools = tools
                    /\ c.params.tool_choice = [type |-> "auto"]

\* both phases ran a tool round with a tool list: the two first calls
\* carry the tools, the two follow-up calls do not
C28_Witness ==
    /\ Done
    /\ Len(tools) > 0
    /\ NumLLMCalls = 4
    /\ \E i, j \in LLMIdx :
            /\ calls[i].phase = "investigate" /\ ~calls[i].followup
            /\ calls[j].phase = "synthesize" /\ ~calls[j].followup
            /\ CarriesTools(calls[i]) /\ CarriesTools(calls[j])
    /\ \A f \in FollowUpIdx : ~CarriesTools(calls[f])
    /\ Cardinality(FollowUpIdx) = 2

\* the last LLM call of the log
LastLLMCall == calls[CHOOSE i \in LLMIdx : \A j \in LLMIdx : j <= i]

\* C29: when generate_response was given tools and its investigation
\* phase ran a tool round to the end, the last LLM call of the finished
\* query carries no tools
C29_LastCallWithoutTools ==
    (/\ Done
     /\ Len(tools) > 0
     /\ \E f \in FollowUpIdx : calls[f].phase = "investigate")
        => ~CarriesTools(LastLLMCall)

(***************************************************************************)
(* Claim about failing backend operations (SpecOutline)                    *)
(***************************************************************************)
\* C30: whatever a backend operation does during a tool execution, return
\* or raise, the execution ends with a text and raises nothing
C30_NoBackendException ==
    op.name = "get_course_outline" => op.exec.result.kind = "return"

(***************************************************************************)
(* Claims about the prompts, the phases and the budgets (Spec)             *)
(***************************************************************************)
\* the first calls of the synthesis phase
SynthesisFirstIdx ==
    {i \in LLMIdx : calls[i].phase = "synthesize" /\ ~calls[i].followup}
\* the text the investigation phase ended with: the text of the reply to
\* its follow-up call, which is the call before the first synthesis call
InvestigationText(i) == calls[i - 1].outcome.val.content[1].text
\* the system prompt up to the conversation history
SystemHead(c) ==
    BASE_SYSTEM_PROMPT \o PHASE_CONFIGS[c.phase].system_suffix
        \o (IF conversation_history # None /\ conversation_history # ""
            THEN "\n\nPrevious conversation:\n" \o conversation_history
            ELSE "")
WrappedQuery ==
    "Original question: " \o query
        \o "\n\nBased on the investigation, please provide a comprehensive answer."

\* C31 as stated: every first call of the synthesis phase has the
\* investigation text under 'Investigation Results' and the wrapped
\* question as its only message.
C31_Original ==
    \A i \in SynthesisFirstIdx :
        /\ calls[i].params.system =
                SystemHead(calls[i]) \o "\n\n**Investigation Results:**\n"
                    \o InvestigationText(i)
        /\ calls[i].params.messages = <<[role |-> "user", content |-> WrappedQuery]>>

\* C31: the first call of the synthesis phase has the investigation text
\* under 'Investigation Results' and the wrapped question as its only
\* message when that text is not empty; when it is empty the system prompt
\* has no such section and the only message is the question as it was
\* asked.  The system prompt of every LLM call, follow-ups included,
\* starts with the base prompt, the suffix of its phase and the
\* conversation history when one was supplied.
C31_SynthesisContext ==
    /\ \A i \in SynthesisFirstIdx :
        IF InvestigationText(i) # ""
        THEN /\ calls[i].params.system =
                    SystemHead(calls[i]) \o "\n\n**Investigation Results:**\n"
                        \o InvestigationText(i)
             /\ calls[i].params.messages =
                    <<[role |-> "user", content |-> WrappedQuery]>>
        ELSE /\ calls[i].params.system = SystemHead(calls[i])
             /\ calls[i].params.messages = <<[role |-> "user", content |-> query]>>
    /\ \A i \in LLMIdx :
        IF calls[i].phase = "investigate"
        THEN calls[i].params.system = SystemHead(calls[i])
        ELSE calls[i].params.system = calls[PhaseStart(i)].params.system

\* a query with a conversation history: the investigation ended with a
\* text, and the synthesis phase made a first call and a follow-up call
C31_Witness ==
    /\ conversation_history = "User: hi"
    /\ \E i \in SynthesisFirstIdx :
        /\ InvestigationText(i) = "Answer A"
        /\ calls[i].params.system =
                BASE_SYSTEM_PROMPT \o "\n\n**Current Phase: SYNTHESIS**"
                    \o "\n\nPrevious conversation:\nUser: hi"
                    \o "\n\n**Investigation Results:**\nAnswer A"
        /\ \E f \in FollowUpIdx : f > i /\ calls[f].params.system = calls[i].params.system

\* C32: the synthesis phase is entered only after at least one tool was
\* executed in the investigation phase
C32_SynthesisNeedsExecutedTool ==
    SynthesisEntered => \E i \in ToolIdx : calls[i].phase = "investigate"

\* C33: every LLM call, follow-ups included, has the max_tokens of its
\* phase: 600 in the investigation phase, 800 in the synthesis phase
C33_PhaseBudget ==
    \A i \in LLMIdx :
        calls[i].params.max_tokens =
            IF calls[i].phase = "investigate" THEN 600 ELSE 800

\* the log is a prefix of itself one step later, longer by one call at most
OneCallPerStep ==
    /\ Len(calls') <= Len(calls) + 1
    /\ Len(calls') >= Len(calls) => SubSeq(calls', 1, Len(calls)) = calls

\* the calls of a query in the order the code allows: per phase a first
\* LLM call, then the tool executions it requested, then the follow-up;
\* the synthesis phase after the follow-up of the investigation phase
StrictSequence ==
    /\ Len(calls) > 0 =>
            calls[1].type = "llm" /\ ~calls[1].followup
                /\ calls[1].phase = "investigate"
    /\ \A i \in ToolIdx :
        LET r == PhaseStart(i)
        IN  /\ calls[r].phase = calls[i].phase
            /\ calls[r].outcome.kind = "return"
            /\ calls[r].outcome.val.stop_reason = "tool_use"
            /\ \E k \in 1..Len(calls[r].outcome.val.content) :
                    /\ calls[r].outcome.val.content[k].type = "tool_use"
                    /\ calls[r].outcome.val.content[k].id = calls[i].id
            /\ \A f \in FollowUpIdx : calls[f].phase = calls[i].phase => i < f
    /\ \A f \in FollowUpIdx :
        /\ calls[PhaseStart(f)].phase = calls[f].phase
        /\ \A j \in (PhaseStart(f) + 1)..(f - 1) :
                calls[j].type = "tool" /\ calls[j].outcome.kind = "return"
    /\ \A i \in SynthesisFirstIdx :
        /\ i > 1
        /\ calls[i - 1].type = "llm"
        /\ calls[i - 1].followup
        /\ calls[i - 1].phase = "investigate"
        /\ calls[i - 1].outcome.kind = "return"
        /\ \A j \in 1..(i - 1) : calls[j].phase = "investigate"
        /\ \A j \in i..Len(calls) : calls[j].phase = "synthesize"
    /\ Cardinality(SynthesisFirstIdx) <= 1

\* C34: the external calls of a query are made one at a time, each step
\* adding one finished call to the log, and in a strict order: a tool
\* execution after the LLM call that requested it and before the follow-up
\* call of its phase, the first synthesis call right after the returned
\* follow-up call of the investigation phase
C34_StrictSequence == [][OneCallPerStep /\ StrictSequence']_vars

\* a finished query with two tool rounds: six calls, one after the other
C34_Witness ==
    /\ Done
    /\ NumLLMCalls = 4
    /\ NumToolCalls = 2
    /\ calls[2].type = "tool" /\ calls[3].followup
    /\ calls[4].phase = "synthesize" /\ ~calls[4].followup
    /\ calls[5].type = "tool" /\ calls[6].followup

(***************************************************************************)
(* Claim about termination (SpecLive)                                      *)
(***************************************************************************)
\* C35: when every external call returns or raises, a generate_response
\* call that was started ends: it returns an answer and raises nothing
C35_Terminates == (pc # "idle") ~> (pc = "done" /\ answer # None /\ raised = None)

\* a query that went through both phases and both tool rounds has returned
C35_Witness ==
    /\ pc = "done"
    /\ answer # None
    /\ NumLLMCalls = 4
    /\ NumToolCalls >= 2

(***************************************************************************)
(* Claim about the listing order of the course metadata (SpecOutline)      *)
(***************************************************************************)
\* the orders in which the backend may list the same courses
Reorderings(courses) ==
    {[i \in 1..Len(courses) |-> courses[p[i]]] :
        p \in {q \in [1..Len(courses) -> 1..Len(courses)] :
                  \A i, j \in 1..Len(courses) : i # j => q[i] # q[j]}}
\* the course an execution chose, as a set: empty when none was chosen
ChosenCourses(e) == IF e.chosen = 0 THEN {} ELSE {e.courses[e.chosen]}

\* C36: the course chosen by an outline lookup, and so the text returned,
\* is the same for every order in which the backend lists the same
\* courses, the name and the answer of _resolve_course_name being the same
C36_OrderIndependent ==
    OutlineListed =>
        \A listed \in Reorderings(op.exec.courses) :
            LET e == CourseOutlineTool_execute(op.exec.course_name,
                        Return(listed), op.exec.resolved)
            IN  /\ ChosenCourses(e) = ChosenCourses(op.exec)
                /\ e.result.kind = "return" /\ e.chosen # 0
                        => e.result = op.exec.result

(***************************************************************************)
(* Claim about tool executions that return a failure text (SpecRag)        *)
(***************************************************************************)
\* the texts with which the outline lookup reports that it found nothing
OutlineFailureTexts ==
    {"No courses found in the system",
     "No course found matching 'MCP'. Available courses: Course X"}
\* the tool execution c returned a failure text: the name is not
\* registered, the search came back with an error or without documents, or
\* the outline lookup found no course
ToolFailureText(c) ==
    /\ c.type = "tool"
    /\ c.outcome.kind = "return"
    /\ \/ ~c.exec.found
       \/ /\ c.exec.found
          /\ c.name = "search_course_content"
          /\ \/ c.exec.backend.search.error \notin {None, ""}
             \/ is_empty(c.exec.backend.search)
       \/ /\ c.exec.found
          /\ c.name = "get_course_outline"
          /\ c.outcome.val \in OutlineFailureTexts
\* the places of the tool executions of the round that follow-up call f ends
RoundOf(f) == {i \in ToolIdx : i < f /\ PhaseStart(i) = PhaseStart(f)}

\* C37: a tool round with an execution that returned a failure text ends
\* like any other tool round: when its follow-up call is answered with a
\* text, the phase has succeeded with used_tools true, and after the
\* investigation phase the synthesis phase is run
C37_FailureTextCountsAsToolUse ==
    \A f \in FollowUpIdx :
        (/\ RepliedText(calls[f])
         /\ \E i \in RoundOf(f) : ToolFailureText(calls[i]))
        => LET r == PhaseResult(calls[f].phase)
           IN  /\ TruthyFlag(r, "success")
               /\ TruthyFlag(r, "used_tools")
               /\ calls[f].phase = "investigate" =>
                    /\ phase = "synthesize"
                    /\ pc = "create" \/ SynthesisEntered

\* a finished query whose investigation round executed an unknown tool and
\* a search without result, and whose synthesis phase gave the answer
C37_Witness ==
    /\ Done
    /\ answer # None
    /\ SynthesisEntered
    /\ \E i, j \in ToolIdx :
        /\ calls[i].phase = "investigate" /\ calls[j].phase = "investigate"
        /\ ~calls[i].exec.found
        /\ calls[j].exec.found
        /\ calls[j].outcome.kind = "return"
        /\ calls[j].exec.backend.search.error = None
        /\ is_empty(calls[j].exec.backend.search)
    /\ TruthyFlag(investigation_result, "used_tools")

(***************************************************************************)
(* Claims about the registry (SpecTools)                                   *)
(***************************************************************************)
\* execution ex reached the content search tool and its backend answered
\* with documents and no error
SuccessfulSearch(ex) ==
    /\ ex.found
    /\ ex.tools[RegistryIndex(ex.tools, ex.tool_name)].tool.class
            = "CourseSearchTool"
    /\ BackendFound(ex)

\* a step changes a citation buffer only when it is reset_sources or an
\* execution of the content search tool that found documents
CitationsFrame ==
    last_sources' # last_sources =>
        \/ op'.name = "reset_sources"
        \/ op'.name = "execute_tool" /\ SuccessfulSearch(op'.exec)

\* C38: the citation buffers change only through a content search that
\* found documents without error or through reset_sources; an outline
\* lookup, a search ending in an error or an empty result, an execute_tool
\* call for an unknown name, get_last_sources, get_tool_definitions (and
\* register_tool) leave every buffer as it was
C38_CitationsFrame == [][CitationsFrame]_vars

\* citations recorded by an earlier search are still there after a search
\* that came back empty
C38_Witness ==
    /\ op.name = "execute_tool"
    /\ op.exec.found
    /\ op.exec.tool_name = "search_course_content"
    /\ BackendEmpty(op.exec)
    /\ \E t \in DOMAIN last_sources : Len(last_sources[t]) > 0

(***************************************************************************)
(* Claim about a tool request without a tool manager (Spec)                *)
(***************************************************************************)
\* generate_response was called without tool manager and its first LLM
\* call was answered with stop reason tool_use
ToolRequestWithoutManager ==
    /\ pc # "idle"
    /\ tool_manager = None
    /\ FirstReplyStop("tool_use")

\* C39: a reply with stop reason tool_use to a query without tool manager
\* starts no tool round: no tool is executed and no follow-up call is
\* made; the reply is read like a direct answer, so the investigation has
\* used_tools false (and has failed when the first content block is no
\* text), and the query is finished after this one LLM call, without
\* synthesis phase
C39_NoManagerNoToolRound ==
    ToolRequestWithoutManager =>
        /\ Len(calls) = 1
        /\ Done
        /\ raised = None
        /\ ~TruthyFlag(investigation_result, "used_tools")
        /\ synthesis_result = NoResult
        /\ LET t == ContentText(calls[1].outcome.val.content)
           IN  IF t.kind = "return"
               THEN /\ TruthyFlag(investigation_result, "success")
                    /\ answer = t.val
               ELSE /\ ~TruthyFlag(investigation_result, "success")
                    /\ answer = "Error in investigate phase: " \o t.val

\* a finished query with tools but without tool manager whose only reply
\* held a text block and a tool_use block: the text is the answer
C39_Witness ==
    /\ ToolRequestWithoutManager
    /\ Done
    /\ answer = Preamble
    /\ Len(tools) > 0
    /\ \E k \in DOMAIN calls[1].outcome.val.content :
            calls[1].outcome.val.content[k].type = "tool_use"

(***************************************************************************)
(* Claim about registering a name again (SpecTools)                        *)
(***************************************************************************)
\* a step of the registry seen from a name that is re-registered: the
\* tools dict keeps its length and its order of names, the name is bound
\* to the new tool alone; execute_tool runs the tool its name is bound to,
\* and only register_tool changes a binding
ReplaceStep ==
    /\ (/\ op'.name = "register_tool"
        /\ HasName(op'.tool)
        /\ get_tool_definition(op'.tool).name \in RegisteredNames(registry))
        => LET n == get_tool_definition(op'.tool).name
           IN  /\ Len(registry') = Len(registry)
               /\ DefNames(registry') = DefNames(registry)
               /\ RegistryIndex(registry', n) = RegistryIndex(registry, n)
               /\ op'.replaced = <<ToolOf(registry, n)>>
               /\ \A i \in 1..Len(registry') :
                    registry'[i].name = n => registry'[i].tool = op'.tool
    /\ (op'.name = "execute_tool" /\ op'.exec.found)
        => op'.exec.reached = <<ToolOf(registry, op'.exec.tool_name)>>
    /\ op'.name # "register_tool" => registry' = registry

\* C40: registering a tool under a name that is already registered
\* replaces the earlier tool: the number of registered tools and the
\* place of the name in the definition order stay the same, and the
\* execute_tool calls for the name that follow run the new tool only
C40_ReRegistrationReplaces == [][ReplaceStep]_vars

\* the second outline tool has just replaced the first, which was
\* registered before the search tool: it is bound at the first place
C40_Witness ==
    /\ op.name = "register_tool"
    /\ op.tool = OutlineTool2
    /\ op.replaced = <<OutlineTool>>
    /\ Len(registry) = 2
    /\ registry[1] = [name |-> "get_course_outline", tool |-> OutlineTool2]
    /\ registry[2].tool = SearchTool

====
